---- MODULE Spec2Model ----
(***************************************************************************)
(* Rule engine (POST /api/apply-rules), rule store (POST /api/rules),      *)
(* upload (POST /api/upload) and the validators of data-alchemy.           *)
(*                                                                         *)
(* JavaScript values are tagged records:                                   *)
(*   [t |-> "undef"], [t |-> "null"], [t |-> "bool", v |-> BOOLEAN],       *)
(*   [t |-> "num", v |-> Int], [t |-> "str", v |-> STRING],                *)
(*   [t |-> "arr", v |-> Seq(Value)], [t |-> "obj", v |-> [keys -> Value]],*)
(*   [t |-> "oid", v |-> Nat] (a driver ObjectId, opaque).                 *)
(* Numbers are integers; strings are TLA+ strings read character by        *)
(* character with SubSeq.                                                  *)
(***************************************************************************)
EXTENDS Integers, Sequences, FiniteSets, TLC

\* ---------------------------------------------------------------------
\* Values
\* ---------------------------------------------------------------------
Undef == [t |-> "undef"]
Null == [t |-> "null"]
Bool(b) == [t |-> "bool", v |-> b]
Num(n) == [t |-> "num", v |-> n]
Str(s) == [t |-> "str", v |-> s]
Arr(q) == [t |-> "arr", v |-> q]
Obj(f) == [t |-> "obj", v |-> f]
Oid(n) == [t |-> "oid", v |-> n]
EmptyObj == Obj(<<>>)

\* typeof
TypeOf(x) ==
  CASE x.t = "undef" -> "undefined"
    [] x.t = "bool" -> "boolean"
    [] x.t = "num" -> "number"
    [] x.t = "str" -> "string"
    [] OTHER -> "object"

\* ToBoolean
Truthy(x) ==
  CASE x.t = "undef" -> FALSE
    [] x.t = "null" -> FALSE
    [] x.t = "bool" -> x.v
    [] x.t = "num" -> x.v # 0
    [] x.t = "str" -> x.v # ""
    [] OTHER -> TRUE

IsNullish(x) == x.t \in {"undef", "null"}

\* ---------------------------------------------------------------------
\* Strings
\* ---------------------------------------------------------------------
Ch(s, i) == SubSeq(s, i, i)

IsWs(c) == c \in {" ", "\t", "\n", "\r"}

IsDigit(c) == c \in {"0", "1", "2", "3", "4", "5", "6", "7", "8", "9"}

DigitVal(c) ==
  CASE c = "0" -> 0 [] c = "1" -> 1 [] c = "2" -> 2 [] c = "3" -> 3
    [] c = "4" -> 4 [] c = "5" -> 5 [] c = "6" -> 6 [] c = "7" -> 7
    [] c = "8" -> 8 [] c = "9" -> 9

DigitChar(d) == SubSeq("0123456789", d + 1, d + 1)

RECURSIVE SkipWs(_, _)
\* first index >= i of s that is not white space (Len(s) + 1 when none)
SkipWs(s, i) ==
  IF i <= Len(s) /\ IsWs(Ch(s, i)) THEN SkipWs(s, i + 1) ELSE i

RECURSIVE SkipWsBack(_, _)
SkipWsBack(s, j) ==
  IF j >= 1 /\ IsWs(Ch(s, j)) THEN SkipWsBack(s, j - 1) ELSE j

Slice(s, i, j) == IF i > j THEN "" ELSE SubSeq(s, i, j)

\* String.prototype.trim
Trim(s) == Slice(s, SkipWs(s, 1), SkipWsBack(s, Len(s)))

RECURSIVE SplitFrom(_, _, _, _)
SplitFrom(s, sep, i, start) ==
  IF i > Len(s) THEN << SubSeq(s, start, Len(s)) >>
  ELSE IF Ch(s, i) = sep
       THEN << SubSeq(s, start, i - 1) >> \o SplitFrom(s, sep, i + 1, i + 1)
       ELSE SplitFrom(s, sep, i + 1, start)

\* String.prototype.split with a one-character separator
Split(s, sep) == SplitFrom(s, sep, 1, 1)

\* String.prototype.includes with a one-character needle
Includes(s, c) == \E i \in 1..Len(s) : Ch(s, i) = c

RECURSIVE PosToStr(_)
PosToStr(n) ==
  IF n < 10 THEN DigitChar(n) ELSE PosToStr(n \div 10) \o DigitChar(n % 10)

\* Number::toString for an integer
NumToStr(n) == IF n < 0 THEN "-" \o PosToStr(-n) ELSE PosToStr(n)

RECURSIVE JoinFrom(_, _)
RECURSIVE ToStr(_)
\* Array.prototype.join(","): null and undefined elements print as ""
JoinFrom(q, i) ==
  IF i > Len(q) THEN ""
  ELSE (IF IsNullish(q[i]) THEN "" ELSE ToStr(q[i]))
       \o (IF i < Len(q) THEN "," ELSE "") \o JoinFrom(q, i + 1)

\* String(x) / ToString
ToStr(x) ==
  CASE x.t = "undef" -> "undefined"
    [] x.t = "null" -> "null"
    [] x.t = "bool" -> (IF x.v THEN "true" ELSE "false")
    [] x.t = "num" -> NumToStr(x.v)
    [] x.t = "str" -> x.v
    [] x.t = "arr" -> JoinFrom(x.v, 1)
    [] x.t = "oid" -> "oid" \o NumToStr(x.v)
    [] OTHER -> "[object Object]"

\* ---------------------------------------------------------------------
\* parseInt (radix 10; the strings of the model carry no 0x prefix)
\* ---------------------------------------------------------------------
NaN == [nan |-> TRUE, n |-> 0]
Int10(n) == [nan |-> FALSE, n |-> n]

RECURSIVE DigitsEnd(_, _)
\* index after the longest run of digits starting at i
DigitsEnd(s, i) ==
  IF i <= Len(s) /\ IsDigit(Ch(s, i)) THEN DigitsEnd(s, i + 1) ELSE i

RECURSIVE DigitsVal(_, _, _, _)
DigitsVal(s, i, j, acc) ==
  IF i >= j THEN acc ELSE DigitsVal(s, i + 1, j, acc * 10 + DigitVal(Ch(s, i)))

SignedDigits(s, neg, k, e) ==
  IF e = k THEN NaN
  ELSE Int10(IF neg THEN -DigitsVal(s, k, e, 0) ELSE DigitsVal(s, k, e, 0))

ParseIntAt(s, neg, k) == SignedDigits(s, neg, k, DigitsEnd(s, k))

ParseIntFrom(s, i) ==
  ParseIntAt(s, i <= Len(s) /\ Ch(s, i) = "-",
             IF i <= Len(s) /\ Ch(s, i) \in {"-", "+"} THEN i + 1 ELSE i)

ParseIntStr(s) == ParseIntFrom(s, SkipWs(s, 1))

\* parseInt(x): ToString first
ParseInt(x) == ParseIntStr(ToStr(x))

\* ---------------------------------------------------------------------
\* JSON.parse.  Numbers are integers; the strings of the model carry no
\* backslash escape, fraction or exponent.
\* ---------------------------------------------------------------------
JFail == [ok |-> FALSE, pos |-> 0, val |-> Undef]
JOk(p, x) == [ok |-> TRUE, pos |-> p, val |-> x]

StartsAt(s, i, lit) ==
  i + Len(lit) - 1 <= Len(s) /\ SubSeq(s, i, i + Len(lit) - 1) = lit

RECURSIVE StrEnd(_, _)
\* index of the closing quote of a JSON string whose body starts at i (0: none)
StrEnd(s, i) ==
  IF i > Len(s) THEN 0
  ELSE IF Ch(s, i) = "\"" THEN i
  ELSE IF Ch(s, i) \in {"\\", "\n", "\t", "\r"} THEN 0
  ELSE StrEnd(s, i + 1)

JNumberAt(s, neg, k) ==
  SignedDigits(s, neg, k,
               IF k <= Len(s) /\ Ch(s, k) = "0" THEN k + 1 ELSE DigitsEnd(s, k))

JNumberOk(p, n) == IF n.nan THEN JFail ELSE JOk(p, Num(n.n))

JNumberEnd(s, k) ==
  IF k <= Len(s) /\ Ch(s, k) = "0" THEN k + 1 ELSE DigitsEnd(s, k)

JNumber(s, i) ==
  IF Ch(s, i) = "-"
  THEN JNumberOk(JNumberEnd(s, i + 1), JNumberAt(s, TRUE, i + 1))
  ELSE JNumberOk(JNumberEnd(s, i), JNumberAt(s, FALSE, i))

JStringTo(s, i, e) ==
  IF e = 0 THEN JFail ELSE JOk(e + 1, Str(SubSeq(s, i + 1, e - 1)))

JString(s, i) == JStringTo(s, i, StrEnd(s, i + 1))

RECURSIVE JValue(_, _)
RECURSIVE JElems(_, _, _)
RECURSIVE JMembers(_, _, _)

JArrayAt(s, j) ==
  IF j <= Len(s) /\ Ch(s, j) = "]" THEN JOk(j + 1, Arr(<<>>))
  ELSE JElems(s, j, <<>>)

JObjectAt(s, j) ==
  IF j <= Len(s) /\ Ch(s, j) = "}" THEN JOk(j + 1, EmptyObj)
  ELSE JMembers(s, j, <<>>)

JValueAt(s, i) ==
  IF i > Len(s) THEN JFail
  ELSE CASE Ch(s, i) = "[" -> JArrayAt(s, SkipWs(s, i + 1))
         [] Ch(s, i) = "{" -> JObjectAt(s, SkipWs(s, i + 1))
         [] Ch(s, i) = "\"" -> JString(s, i)
         [] Ch(s, i) = "-" \/ IsDigit(Ch(s, i)) -> JNumber(s, i)
         [] StartsAt(s, i, "true") -> JOk(i + 4, Bool(TRUE))
         [] StartsAt(s, i, "false") -> JOk(i + 5, Bool(FALSE))
         [] StartsAt(s, i, "null") -> JOk(i + 4, Null)
         [] OTHER -> JFail

JValue(s, i0) == JValueAt(s, SkipWs(s, i0))

\* after an element: a comma, the closing bracket, or an error
JElemsNext(s, j, acc) ==
  IF j > Len(s) THEN JFail
  ELSE IF Ch(s, j) = "," THEN JElems(s, j + 1, acc)
  ELSE IF Ch(s, j) = "]" THEN JOk(j + 1, Arr(acc))
  ELSE JFail

JElemsGot(s, r, acc) ==
  IF ~r.ok THEN JFail ELSE JElemsNext(s, SkipWs(s, r.pos), Append(acc, r.val))

JElems(s, i, acc) == JElemsGot(s, JValue(s, i), acc)

JMembersNext(s, j, m) ==
  IF j > Len(s) THEN JFail
  ELSE IF Ch(s, j) = "," THEN JMembers(s, j + 1, m)
  ELSE IF Ch(s, j) = "}" THEN JOk(j + 1, Obj(m))
  ELSE JFail

JMemberGot(s, key, r, acc) ==
  IF ~r.ok THEN JFail
  ELSE JMembersNext(s, SkipWs(s, r.pos), (key :> r.val) @@ acc)

JMemberColon(s, key, c, acc) ==
  IF c > Len(s) \/ Ch(s, c) # ":" THEN JFail
  ELSE JMemberGot(s, key, JValue(s, c + 1), acc)

JMemberKey(s, k, acc) ==
  IF ~k.ok THEN JFail ELSE JMemberColon(s, k.val.v, SkipWs(s, k.pos), acc)

JMembersAt(s, i, acc) ==
  IF i > Len(s) \/ Ch(s, i) # "\"" THEN JFail
  ELSE JMemberKey(s, JString(s, i), acc)

JMembers(s, i0, acc) == JMembersAt(s, SkipWs(s, i0), acc)

JWhole(s, r) == IF r.ok /\ SkipWs(s, r.pos) > Len(s) THEN r ELSE JFail

\* JSON.parse(s): ok = FALSE models the SyntaxError
JSONParse(s) == JWhole(s, JValue(s, 1))

\* src/app/api/rules/route.ts isValidJsonString
isValidJsonString(s) == JSONParse(s).ok

\* ---------------------------------------------------------------------
\* Property access.  Only own, representable properties are modelled:
\* inherited members (constructor, __proto__, ...) read as undefined and
\* an array only takes an in-range numeric index.
\* ---------------------------------------------------------------------
IsIndexNum(q, key, p) ==
  ~p.nan /\ NumToStr(p.n) = key /\ p.n >= 0 /\ p.n < Len(q)

IsIndex(q, key) == IsIndexNum(q, key, ParseIntStr(key))

\* x[key]
Prop(x, key) ==
  CASE x.t = "obj" -> (IF key \in DOMAIN x.v THEN x.v[key] ELSE Undef)
    [] x.t = "arr" -> (IF key = "length" THEN Num(Len(x.v))
                       ELSE IF IsIndex(x.v, key)
                            THEN x.v[ParseIntStr(key).n + 1] ELSE Undef)
    [] OTHER -> Undef

\* x[key] = val, on an object or array x
AssignProp(x, key, val) ==
  CASE x.t = "obj" -> Obj((key :> val) @@ x.v)
    [] x.t = "arr" /\ IsIndex(x.v, key) ->
         Arr([x.v EXCEPT ![ParseIntStr(key).n + 1] = val])
    [] OTHER -> x

\* row.k on a record held as a field map
Field(row, k) == IF k \in DOMAIN row THEN row[k] ELSE Undef

RECURSIVE GetFrom(_, _, _)
GetFrom(cur, parts, i) ==
  IF i > Len(parts) THEN cur
  ELSE GetFrom(IF Truthy(cur) /\ TypeOf(cur) = "object"
               THEN Prop(cur, parts[i]) ELSE Undef,
               parts, i + 1)

getNestedProperty(obj, path) == GetFrom(Obj(obj), Split(path, "."), 1)

\* typeof current[part] !== "object" || current[part] === null
NotDescendable(x) == TypeOf(x) # "object" \/ x.t = "null"

\* a descent that creates an object only where nothing is held
DescendMissing(child) == IF child.t = "undef" THEN EmptyObj ELSE child

RECURSIVE SetIn(_, _, _, _)
\* current = current[part], after the replacement by {} when needed
Descend(child) == IF NotDescendable(child) THEN EmptyObj ELSE child

SetIn(cur, parts, i, value) ==
  IF i = Len(parts) THEN AssignProp(cur, parts[i], value)
  ELSE AssignProp(cur, parts[i],
                  SetIn(Descend(Prop(cur, parts[i])), parts, i + 1, value))

setNestedProperty(obj, path, value) ==
  SetIn(Obj(obj), Split(path, "."), 1, value).v

\* setNestedProperty writes through the object already held at the first
\* segment (no copy is made below the top level) exactly in this case
WritesInPlaceAt(obj, parts) ==
  Len(parts) > 1 /\ ~NotDescendable(Field(obj, parts[1]))

WritesInPlace(obj, path) == WritesInPlaceAt(obj, Split(path, "."))

\* ---------------------------------------------------------------------
\* src/lib/validators.js
\* ---------------------------------------------------------------------
RECURSIVE TrimAll(_, _)
TrimAll(q, i) ==
  IF i > Len(q) THEN <<>>
  ELSE (IF Trim(q[i]) = "" THEN <<>> ELSE << Str(Trim(q[i])) >>)
       \o TrimAll(q, i + 1)

parseCommaSeparated(value) ==
  IF TypeOf(value) = "string" /\ Trim(value.v) # ""
  THEN Arr(TrimAll(Split(value.v, ","), 1))
  ELSE Arr(<<>>)

RECURSIVE ParsedInts(_, _)
\* .map(s => parseInt(s.trim())).filter(n => !isNaN(n))
KeepInt(n) == IF n.nan THEN <<>> ELSE << Num(n.n) >>

ParsedInts(q, i) ==
  IF i > Len(q) THEN <<>>
  ELSE KeepInt(ParseIntStr(Trim(q[i]))) \o ParsedInts(q, i + 1)

\* a range that leaves its upper end out
RangeExclusive(start, end) ==
  IF ~start.nan /\ ~end.nan /\ start.n <= end.n
  THEN Arr([k \in 1..(end.n - start.n) |-> Num(start.n + k - 1)])
  ELSE Null

\* Array.from({ length: end - start + 1 }, (_, i) => start + i)
RangeOrNull(start, end) ==
  IF ~start.nan /\ ~end.nan /\ start.n <= end.n
  THEN Arr([k \in 1..(end.n - start.n + 1) |-> Num(start.n + k - 1)])
  ELSE Null

DashRange(ps) ==
  RangeOrNull(ParseIntStr(Trim(ps[1])), ParseIntStr(Trim(ps[2])))

ListOrNull(numbers) == IF Len(numbers) > 0 THEN Arr(numbers) ELSE Null

\* parsePhases after the JSON.parse attempt j
PhasesAfterJSON(s, j) ==
  IF j.ok /\ j.val.t = "arr"
     /\ \A k \in 1..Len(j.val.v) : TypeOf(j.val.v[k]) = "number"
  THEN j.val
  ELSE IF Includes(s, "-") THEN DashRange(Split(s, "-"))
  ELSE ListOrNull(ParsedInts(Split(s, ","), 1))

parsePhases(value) ==
  IF TypeOf(value) # "string" THEN Arr(<<>>)
  ELSE IF Trim(value.v) = "" THEN Arr(<<>>)
  ELSE PhasesAfterJSON(value.v, JSONParse(value.v))

\* !row.X || typeof row.X !== 'string' || row.X.trim() === ''
MissingId(x) == ~Truthy(x) \/ TypeOf(x) # "string" \/ Trim(x.v) = ""

ErrIf(cond, msg) == IF cond THEN << msg >> ELSE <<>>

\* a range test without the lower end
AboveOnly(n, lo, hi) == n.nan \/ n.n > hi

NotInRange(n, lo, hi) == n.nan \/ n.n < lo \/ n.n > hi

BelowMin(n, lo) == n.nan \/ n.n < lo

\* row.X !== undefined and the comma list does not parse to an array
BadList(x) == x # Undef /\ parseCommaSeparated(x).t # "arr"

\* row.X !== undefined and parsePhases(String(row.X)) === null
BadPhases(x) == x # Undef /\ parsePhases(Str(ToStr(x))) = Null

AttributesErrors(attrs) ==
  IF attrs = Undef THEN <<>>
  ELSE IF TypeOf(attrs) = "string"
  THEN ErrIf(~JSONParse(attrs.v).ok, "AttributesJSON: Malformed JSON string.")
  ELSE ErrIf(TypeOf(attrs) # "object",
             "AttributesJSON: Must be a valid object or JSON string.")

validateClient(row) ==
  ErrIf(MissingId(Field(row, "ClientID")), "ClientID: Missing required value.")
  \o ErrIf(NotInRange(ParseInt(Field(row, "PriorityLevel")), 1, 5),
           "PriorityLevel: Must be an integer between 1 and 5.")
  \o ErrIf(BadList(Field(row, "RequestedTaskIDs")),
           "RequestedTaskIDs: Malformed list format.")
  \o AttributesErrors(Field(row, "AttributesJSON"))

validateWorker(row) ==
  ErrIf(MissingId(Field(row, "WorkerID")), "WorkerID: Missing required value.")
  \o ErrIf(BadList(Field(row, "Skills")), "Skills: Malformed list format.")
  \o ErrIf(BadPhases(Field(row, "AvailableSlots")),
           "AvailableSlots: Malformed list or range format.")
  \o ErrIf(ParseInt(Field(row, "MaxLoadPerPhase")).nan,
           "MaxLoadPerPhase: Must be an integer.")

validateTask(row) ==
  ErrIf(MissingId(Field(row, "TaskID")), "TaskID: Missing required value.")
  \o ErrIf(BelowMin(ParseInt(Field(row, "Duration")), 1),
           "Duration: Must be an integer >= 1.")
  \o ErrIf(BadList(Field(row, "RequiredSkills")),
           "RequiredSkills: Malformed list format.")
  \o ErrIf(BadPhases(Field(row, "PreferredPhases")),
           "PreferredPhases: Malformed list or range format.")
  \o ErrIf(ParseInt(Field(row, "MaxConcurrent")).nan,
           "MaxConcurrent: Must be an integer.")

\* a validator that treats a record of an unknown kind as a client
validateDataAsClients(entityType, row) ==
  CASE entityType = "workers" -> validateWorker(row)
    [] entityType = "tasks" -> validateTask(row)
    [] OTHER -> validateClient(row)

\* a validator that keeps the errors the record carries
validateDataWithHistory(entityType, row) ==
  (IF Field(row, "_validationErrors").t = "arr"
   THEN [i \in 1..Len(row["_validationErrors"].v) |->
           row["_validationErrors"].v[i].v]
   ELSE <<>>)
  \o (CASE entityType = "clients" -> validateClient(row)
         [] entityType = "workers" -> validateWorker(row)
         [] entityType = "tasks" -> validateTask(row)
         [] OTHER -> << "Unknown entity type." >>)

validateData(entityType, row) ==
  CASE entityType = "clients" -> validateClient(row)
    [] entityType = "workers" -> validateWorker(row)
    [] entityType = "tasks" -> validateTask(row)
    [] OTHER -> << "Unknown entity type." >>

\* ---------------------------------------------------------------------
\* src/app/api/rules/route.ts evaluateCondition
\* ---------------------------------------------------------------------
Ascii ==
  " !\"#$%&'()*+,-./0123456789:;<=>?@ABCDEFGHIJKLMNOPQRSTUVWXYZ[\\]^_abcdefghijklmnopqrstuvwxyz{|}~"

\* code-unit order of a printable character (the backquote is left out)
Code(c) == CHOOSE i \in 1..Len(Ascii) : Ch(Ascii, i) = c

UpperAZ == "ABCDEFGHIJKLMNOPQRSTUVWXYZ"
LowerAZ == "abcdefghijklmnopqrstuvwxyz"

LowerCh(c) ==
  IF \E i \in 1..26 : Ch(UpperAZ, i) = c
  THEN Ch(LowerAZ, CHOOSE i \in 1..26 : Ch(UpperAZ, i) = c)
  ELSE c

RECURSIVE LowerFrom(_, _)
LowerFrom(s, i) ==
  IF i > Len(s) THEN "" ELSE LowerCh(Ch(s, i)) \o LowerFrom(s, i + 1)

\* String.prototype.toLowerCase
ToLowerCase(s) == LowerFrom(s, 1)

\* Number(s) for a string: blank is 0, an optionally signed run of digits
\* is its value, anything else NaN
TrimmedToNumber(u, k) ==
  IF u = "" THEN Int10(0)
  ELSE IF k <= Len(u) /\ DigitsEnd(u, k) = Len(u) + 1
       THEN Int10(IF Ch(u, 1) = "-" THEN -DigitsVal(u, k, Len(u) + 1, 0)
                  ELSE DigitsVal(u, k, Len(u) + 1, 0))
       ELSE NaN

SignSkip(u) == IF u # "" /\ Ch(u, 1) \in {"-", "+"} THEN 2 ELSE 1

StrToNumberTrimmed(u) == TrimmedToNumber(u, SignSkip(u))

StrToNumber(s) == StrToNumberTrimmed(Trim(s))

\* ToPrimitive (hint number) of the model's values
ToPrim(x) == IF x.t \in {"arr", "obj", "oid"} THEN Str(ToStr(x)) ELSE x

\* ToNumber of a primitive
ToNumber(x) ==
  CASE x.t = "undef" -> NaN
    [] x.t = "null" -> Int10(0)
    [] x.t = "bool" -> Int10(IF x.v THEN 1 ELSE 0)
    [] x.t = "num" -> Int10(x.v)
    [] OTHER -> StrToNumber(x.v)

RECURSIVE StrLess(_, _, _)
\* a < b on strings, by code units
StrLess(a, b, i) ==
  IF i > Len(b) THEN FALSE
  ELSE IF i > Len(a) THEN TRUE
  ELSE IF Ch(a, i) = Ch(b, i) THEN StrLess(a, b, i + 1)
  ELSE Code(Ch(a, i)) < Code(Ch(b, i))

NumLess(na, nb) == ~na.nan /\ ~nb.nan /\ na.n < nb.n
NumLessEq(na, nb) == ~na.nan /\ ~nb.nan /\ na.n <= nb.n

PrimLess(pa, pb) ==
  IF pa.t = "str" /\ pb.t = "str" THEN StrLess(pa.v, pb.v, 1)
  ELSE NumLess(ToNumber(pa), ToNumber(pb))

PrimLessEq(pa, pb) ==
  IF pa.t = "str" /\ pb.t = "str" THEN ~StrLess(pb.v, pa.v, 1)
  ELSE NumLessEq(ToNumber(pa), ToNumber(pb))

\* a < b
JsLess(a, b) == PrimLess(ToPrim(a), ToPrim(b))

\* a <= b
JsLessEq(a, b) == PrimLessEq(ToPrim(a), ToPrim(b))

\* a === b; a record value and a condition value are never the same object
StrictEq(a, b) == a.t \notin {"arr", "obj", "oid"} /\ a = b

\* String.prototype.includes
StrContains(a, b) ==
  \E i \in 1..(Len(a) + 1) : StartsAt(a, i, b)

\* Array.prototype.includes
ArrIncludes(q, x) == \E i \in 1..Len(q) : StrictEq(q[i], x)

IsNumericStr(x) == TypeOf(x) = "string" /\ ~StrToNumber(x.v).nan
IsBoolStr(x) == TypeOf(x) = "string" /\ ToLowerCase(x.v) \in {"true", "false"}

\* lines 198-207: a numeric-looking string facing a number becomes a number
CoerceNumber(x, other) ==
  IF IsNumericStr(x) /\ TypeOf(other) = "number"
  THEN Num(StrToNumber(x.v).n) ELSE x

\* lines 208-219: "true" / "false" facing a boolean becomes a boolean
CoerceBoolean(x, other) ==
  IF IsBoolStr(x) /\ TypeOf(other) = "boolean"
  THEN Bool(ToLowerCase(x.v) = "true") ELSE x

EndsWith(a, b) ==
  Len(b) <= Len(a) /\ StartsAt(a, Len(a) - Len(b) + 1, b)

\* the switch on condition.operator
CompareValues(op, val1, val2) ==
  CASE op = "eq" -> StrictEq(val1, val2)
    [] op = "ne" -> ~StrictEq(val1, val2)
    [] op = "gt" -> JsLess(val2, val1)
    [] op = "lt" -> JsLess(val1, val2)
    [] op = "gte" -> JsLessEq(val2, val1)
    [] op = "lte" -> JsLessEq(val1, val2)
    [] op = "contains" ->
         IF TypeOf(val1) = "string" /\ TypeOf(val2) = "string"
         THEN StrContains(val1.v, val2.v)
         ELSE val1.t = "arr" /\ ArrIncludes(val1.v, val2)
    [] op = "startsWith" ->
         TypeOf(val1) = "string" /\ StartsAt(val1.v, 1, ToStr(val2))
    [] op = "endsWith" ->
         TypeOf(val1) = "string" /\ EndsWith(val1.v, ToStr(val2))
    [] op = "in" -> val2.t = "arr" /\ ArrIncludes(val2.v, val1)
    [] op = "nin" -> val2.t = "arr" /\ ~ArrIncludes(val2.v, val1)
    [] OTHER -> FALSE

CoerceStep3(op, val1, b1) == CompareValues(op, val1, CoerceBoolean(b1, val1))
CoerceStep2(op, a1, b1) == CoerceStep3(op, CoerceBoolean(a1, b1), b1)
\* a coercion of the record's side alone
CoerceRecordOnly(op, a1, b0) == CoerceStep2(op, a1, b0)

CoerceStep1(op, a1, b0) == CoerceStep2(op, a1, CoerceNumber(b0, a1))

\* an evaluation without the return on undefined and null of line 193
EvaluateUnguarded(recordValue, op, value) ==
  CASE op = "is_string" ->
         TypeOf(recordValue) = "string" /\ value = Bool(TRUE)
    [] op = "is_not_json" ->
         /\ TypeOf(recordValue) = "string"
         /\ ~isValidJsonString(recordValue.v)
         /\ value = Bool(TRUE)
    [] op = "exists" -> value = Bool(~IsNullish(recordValue))
    [] OTHER -> CoerceStep1(op, CoerceNumber(recordValue, value), value)

\* an evaluation in which exists does not look at condition.value
EvaluatePresence(recordValue, op, value) ==
  CASE op = "is_string" ->
         TypeOf(recordValue) = "string" /\ value = Bool(TRUE)
    [] op = "is_not_json" ->
         /\ TypeOf(recordValue) = "string"
         /\ ~isValidJsonString(recordValue.v)
         /\ value = Bool(TRUE)
    [] op = "exists" -> ~IsNullish(recordValue)
    [] IsNullish(recordValue) -> FALSE
    [] OTHER -> CoerceStep1(op, CoerceNumber(recordValue, value), value)

\* evaluateCondition once condition.field is resolved
EvaluateResolved(recordValue, op, value) ==
  CASE op = "is_string" ->
         TypeOf(recordValue) = "string" /\ value = Bool(TRUE)
    [] op = "is_not_json" ->
         /\ TypeOf(recordValue) = "string"
         /\ ~isValidJsonString(recordValue.v)
         /\ value = Bool(TRUE)
    [] op = "exists" -> value = Bool(~IsNullish(recordValue))
    [] IsNullish(recordValue) -> FALSE
    [] OTHER -> CoerceStep1(op, CoerceNumber(recordValue, value), value)

evaluateCondition(record, condition) ==
  EvaluateResolved(getNestedProperty(record, condition.field),
                   condition.operator, condition.value)

\* ---------------------------------------------------------------------
\* src/app/api/rules/route.ts POST (apply rules): the per-record pass.
\*
\* A rule document is [entityType, enabled, hasPriority, priority,
\* hasConditions, conditions, hasActions, actions]; an action is
\* [type, hasField, field, value, additionalFields]; a condition is
\* [field, operator, value].  has* = FALSE is a missing property.
\*
\* The pass state st is
\*   doc     modifiedDoc
\*   orig    originalDoc, the object held by currentData
\*   shared  top-level keys whose value is still the very object that
\*           originalDoc holds (modifiedDoc starts as a shallow copy)
\*   changed changedFields
\*   thrown  a TypeError left the loop
\*   log     the actions executed so far, in order
\* ---------------------------------------------------------------------
Entities == << "clients", "workers", "tasks" >>

Pri(rule) == IF rule.hasPriority THEN rule.priority ELSE 0

\* a filter that keeps the rules of every kind
KeepAllRules(rs, entityType, i) == rs

RECURSIVE FilterRules(_, _, _)
\* storedRules.filter(rule => rule.entityType === entityType || ... "general")
FilterRules(rs, entityType, i) ==
  IF i > Len(rs) THEN <<>>
  ELSE (IF rs[i].entityType = entityType \/ rs[i].entityType = "general"
        THEN << rs[i] >> ELSE <<>>) \o FilterRules(rs, entityType, i + 1)

\* the comparator of an ascending sort
CompareAscending(a, b) == Pri(a) - Pri(b)

\* the comparator (a, b) => (b.priority || 0) - (a.priority || 0)
Compare(a, b) == Pri(b) - Pri(a)

RECURSIVE InsertRule(_, _, _)
\* x goes behind every element that the comparator does not put after it
InsertRule(sorted, x, i) ==
  IF i > Len(sorted) THEN Append(sorted, x)
  ELSE IF Compare(sorted[i], x) > 0
       THEN SubSeq(sorted, 1, i - 1) \o << x >> \o SubSeq(sorted, i, Len(sorted))
       ELSE InsertRule(sorted, x, i + 1)

RECURSIVE SortRules(_, _, _)
\* Array.prototype.sort is stable
SortRules(rs, i, acc) ==
  IF i > Len(rs) THEN acc ELSE SortRules(rs, i + 1, InsertRule(acc, rs[i], 1))

ApplicableRules(storedRules, entityType) ==
  SortRules(FilterRules(storedRules, entityType, 1), 1, <<>>)

Throw(st) == [st EXCEPT !.thrown = TRUE]

\* the pass state once modifiedDoc = newDoc and changedFields has field;
\* a write in place also shows in originalDoc when the object is shared
Written(st, field, top, inplace, newDoc) ==
  [st EXCEPT
     !.doc = newDoc,
     !.changed = st.changed \cup {field},
     !.orig = IF inplace /\ top \in st.shared
              THEN (top :> newDoc[top]) @@ st.orig ELSE st.orig,
     !.shared = IF inplace THEN st.shared ELSE st.shared \ {top}]

\* modifiedDoc = setNestedProperty(modifiedDoc, field, value);
\* changedFields.add(field)
WriteField(st, field, value) ==
  Written(st, field, Split(field, ".")[1], WritesInPlace(st.doc, field),
          setNestedProperty(st.doc, field, value))

SetFieldAction(st, action) ==
  IF ~action.hasField THEN Throw(st)
  ELSE WriteField(st, action.field, action.value)

\* `${action.field}: ${action.value}`
ErrorText(action) ==
  Str((IF action.hasField THEN action.field ELSE "undefined")
      \o ": " \o ToStr(action.value))

\* lines 270-272 with cur = modifiedDoc._validationErrors
PushError(st, cur, text) ==
  IF ~Truthy(cur)
  THEN [st EXCEPT
          !.doc = ("_validationErrors" :> Arr(<< text >>)) @@ st.doc,
          !.shared = st.shared \ {"_validationErrors"},
          !.changed = st.changed \cup {"_validationErrors"}]
  ELSE IF cur.t = "arr"
  THEN [st EXCEPT
          !.doc = ("_validationErrors" :> Arr(Append(cur.v, text))) @@ st.doc,
          !.orig = IF "_validationErrors" \in st.shared
                   THEN ("_validationErrors" :> Arr(Append(cur.v, text)))
                        @@ st.orig
                   ELSE st.orig,
          !.changed = st.changed \cup {"_validationErrors"}]
  ELSE Throw(st)

MarkErrorAction(st, action) ==
  PushError(st, Field(st.doc, "_validationErrors"), ErrorText(action))

\* a filter_out that also clears the errors of the clone
FilterOutClearing(st, action) ==
  [st EXCEPT
     !.doc = ("_filteredOut" :> Bool(TRUE)) @@ ("_validationErrors" :> Null)
             @@ st.doc,
     !.shared = st.shared \ {"_filteredOut", "_validationErrors"},
     !.changed = st.changed \cup {"_filteredOut"}]

FilterOutAction(st, action) ==
  [st EXCEPT
     !.doc = ("_filteredOut" :> Bool(TRUE)) @@ st.doc,
     !.shared = st.shared \ {"_filteredOut"},
     !.changed = st.changed \cup {"_filteredOut"}]

\* { message: fieldValue, ...(action.additionalFields || {}) }
JsonObject(fieldValue, additionalFields) ==
  Obj(additionalFields @@ ("message" :> fieldValue))

\* a wrap of whatever the field holds
WrapAlways(st, action, fieldValue) ==
  IF fieldValue.t = "undef" THEN st
  ELSE WriteField(st, action.field,
                  JsonObject(fieldValue, action.additionalFields))

\* lines 278-285 with fieldValue resolved
WrapValue(st, action, fieldValue) ==
  IF TypeOf(fieldValue) = "string" /\ ~isValidJsonString(fieldValue.v)
  THEN WriteField(st, action.field,
                  JsonObject(fieldValue, action.additionalFields))
  ELSE st

WrapAction(st, action) ==
  IF ~action.hasField THEN Throw(st)
  ELSE WrapValue(st, action, getNestedProperty(st.doc, action.field))

\* a dispatch in which transform_value writes its value
DispatchTransforming(st, action) ==
  CASE action.type \in {"set_field", "transform_value"} ->
         SetFieldAction(st, action)
    [] action.type = "mark_error" -> MarkErrorAction(st, action)
    [] action.type = "filter_out" -> FilterOutAction(st, action)
    [] action.type = "wrap_string_in_json_message" -> WrapAction(st, action)
    [] OTHER -> st

Dispatch(st, action) ==
  CASE action.type = "set_field" -> SetFieldAction(st, action)
    [] action.type = "mark_error" -> MarkErrorAction(st, action)
    [] action.type = "filter_out" -> FilterOutAction(st, action)
    [] action.type = "wrap_string_in_json_message" -> WrapAction(st, action)
    [] OTHER -> st

Logged(r, action) ==
  IF r.thrown THEN r ELSE [r EXCEPT !.log = Append(r.log, action)]

ApplyAction(st, action) == Logged(Dispatch(st, action), action)

RECURSIVE ApplyActions(_, _, _)
ApplyActions(st, actions, i) ==
  IF i > Len(actions) \/ st.thrown THEN st
  ELSE ApplyActions(ApplyAction(st, actions[i]), actions, i + 1)

\* a rule without conditions matches nothing
SomeConditionsMet(doc, rule) ==
  /\ Len(rule.conditions) > 0
  /\ \A i \in 1..Len(rule.conditions) : evaluateCondition(doc, rule.conditions[i])

\* a rule that fires when one of its conditions holds
AnyConditionMet(doc, rule) ==
  \E i \in 1..Len(rule.conditions) : evaluateCondition(doc, rule.conditions[i])

\* rule.conditions.every(condition => evaluateCondition(modifiedDoc, condition))
ConditionsMet(doc, rule) ==
  \A i \in 1..Len(rule.conditions) : evaluateCondition(doc, rule.conditions[i])

ApplyRule(st, rule) ==
  IF ~rule.hasConditions THEN Throw(st)
  ELSE IF ~ConditionsMet(st.doc, rule) THEN st
  ELSE IF ~rule.hasActions THEN Throw(st)
  ELSE ApplyActions(st, rule.actions, 1)

RECURSIVE ApplyRules(_, _, _)
ApplyRules(st, rules, i) ==
  IF i > Len(rules) \/ st.thrown THEN st
  ELSE ApplyRules(ApplyRule(st, rules[i]), rules, i + 1)

StrArr(q) == Arr([i \in 1..Len(q) |-> Str(q[i])])

\* modifiedDoc._validationErrors = currentErrors.length > 0 ? currentErrors : null;
\* changedFields.add("_validationErrors")
SetErrors(st, currentErrors) ==
  [st EXCEPT
     !.doc = ("_validationErrors" :>
                (IF Len(currentErrors) > 0 THEN StrArr(currentErrors) ELSE Null))
             @@ st.doc,
     !.shared = st.shared \ {"_validationErrors"},
     !.changed = st.changed \cup {"_validationErrors"}]

\* a revalidation that appends to the errors already on the clone
RevalidateKeeping(st, entityType) ==
  [st EXCEPT
     !.doc = ("_validationErrors" :>
                Arr((IF Field(st.doc, "_validationErrors").t = "arr"
                     THEN Field(st.doc, "_validationErrors").v ELSE <<>>)
                    \o StrArr(validateData(entityType, st.doc)).v))
             @@ st.doc,
     !.shared = st.shared \ {"_validationErrors"},
     !.changed = st.changed \cup {"_validationErrors"}]

\* const currentErrors = validateData(entityType, { ...modifiedDoc });
Revalidate(st, entityType) == SetErrors(st, validateData(entityType, st.doc))

StartPass(originalDoc) ==
  [doc |-> originalDoc, orig |-> originalDoc, shared |-> DOMAIN originalDoc,
   changed |-> {}, thrown |-> FALSE, log |-> <<>>]

\* the state on reaching line 291, all rules applied
AfterRules(entityType, originalDoc, storedRules) ==
  ApplyRules(StartPass(originalDoc),
             ApplicableRules(storedRules, entityType), 1)

RevalidateUnlessThrown(st, entityType) ==
  IF st.thrown THEN st ELSE Revalidate(st, entityType)

ProcessRecord(entityType, originalDoc, storedRules) ==
  RevalidateUnlessThrown(AfterRules(entityType, originalDoc, storedRules),
                         entityType)

\* the operations one record adds to bulkOperations
UpdateOp(id, toSet, toUnset) ==
  IF DOMAIN toSet = {} /\ toUnset = {} THEN <<>>
  ELSE << [op |-> "updateOne", id |-> id, set |-> toSet, unset |-> toUnset] >>

\* lines 299-309: the split of changedFields into $set and $unset
SetPart(st) ==
  [f \in {g \in st.changed : ~IsNullish(Field(st.doc, g))} |-> st.doc[f]]

UnsetPart(st) == {f \in st.changed : IsNullish(Field(st.doc, f))}

\* a batch entry that keeps the field diff beside the delete
RecordOpsBoth(st) ==
  IF st.changed = {} THEN <<>>
  ELSE (IF Truthy(Field(st.doc, "_filteredOut"))
        THEN << [op |-> "deleteOne", id |-> Field(st.orig, "_id"),
                 set |-> <<>>, unset |-> {}] >>
        ELSE <<>>)
       \o UpdateOp(Field(st.orig, "_id"), SetPart(st), UnsetPart(st))

\* a batch that deletes on the boolean true alone
RecordOpsOnTrue(st) ==
  IF st.changed = {} THEN <<>>
  ELSE IF Field(st.doc, "_filteredOut") = Bool(TRUE)
  THEN << [op |-> "deleteOne", id |-> Field(st.orig, "_id"),
           set |-> <<>>, unset |-> {}] >>
  ELSE UpdateOp(Field(st.orig, "_id"), SetPart(st), UnsetPart(st))

\* a batch that skips the record whose changed fields hold what the
\* original holds
RecordOpsWhenDiffers(st) ==
  IF \A f \in st.changed :
       \/ IsNullish(Field(st.doc, f)) /\ IsNullish(Field(st.orig, f))
       \/ Field(st.doc, f) = Field(st.orig, f)
  THEN <<>>
  ELSE IF Truthy(Field(st.doc, "_filteredOut"))
  THEN << [op |-> "deleteOne", id |-> Field(st.orig, "_id"),
           set |-> <<>>, unset |-> {}] >>
  ELSE UpdateOp(Field(st.orig, "_id"), SetPart(st), UnsetPart(st))

RecordOps(st) ==
  IF st.changed = {} THEN <<>>
  ELSE IF Truthy(Field(st.doc, "_filteredOut"))
  THEN << [op |-> "deleteOne", id |-> Field(st.orig, "_id"),
           set |-> <<>>, unset |-> {}] >>
  ELSE UpdateOp(Field(st.orig, "_id"), SetPart(st), UnsetPart(st))

\* ---------------------------------------------------------------------
\* The collections.  A collection is the sequence of its documents in
\* insertion order; updateOne / deleteOne / bulkWrite follow the driver's
\* documented behaviour for the update documents the handlers build
\* ($set and $unset with dotted paths, ordered bulk write).
\* ---------------------------------------------------------------------
Without(f, key) == [k \in DOMAIN f \ {key} |-> f[k]]

IsPrefixSeq(pa, pb) == Len(pa) < Len(pb) /\ SubSeq(pb, 1, Len(pa)) = pa

IsPrefixPath(a, b) == IsPrefixSeq(Split(a, "."), Split(b, "."))

\* an update the server rejects: an empty path segment, a write to _id,
\* or two paths of which one is a prefix of the other
RejectedPaths(paths) ==
  \/ \E a \in paths : \E i \in 1..Len(Split(a, ".")) : Split(a, ".")[i] = ""
  \/ \E a \in paths : Split(a, ".")[1] = "_id"
  \/ \E a \in paths, b \in paths : IsPrefixPath(a, b)

RejectedUpdate(set, unset) == RejectedPaths(DOMAIN set \cup unset)

RECURSIVE UnsetPath(_, _, _)
\* $unset: removes the field when the path leads to it, else nothing
UnsetPath(f, parts, i) ==
  IF parts[i] \notin DOMAIN f THEN f
  ELSE IF i = Len(parts) THEN Without(f, parts[i])
  ELSE IF f[parts[i]].t = "obj"
       THEN (parts[i] :> Obj(UnsetPath(f[parts[i]].v, parts, i + 1))) @@ f
       ELSE f

RECURSIVE UnsetAll(_, _)
UnsetAll(f, unset) ==
  IF unset = {} THEN f
  ELSE LET a == CHOOSE a \in unset : TRUE
       IN UnsetAll(UnsetPath(f, Split(a, "."), 1), unset \ {a})

\* $set of top-level fields (the handlers never build a dotted $set key
\* for the records of the model)
SetAll(f, set) == [k \in DOMAIN f \cup DOMAIN set |->
                     IF k \in DOMAIN set THEN set[k] ELSE f[k]]

UpdateDoc(doc, set, unset) == UnsetAll(SetAll(doc, set), unset)

IndexOfId(coll, id) ==
  IF \E i \in 1..Len(coll) : coll[i]["_id"] = id
  THEN CHOOSE i \in 1..Len(coll) : coll[i]["_id"] = id
  ELSE 0

RemoveAt(q, i) == SubSeq(q, 1, i - 1) \o SubSeq(q, i + 1, Len(q))

\* one operation of a bulk write against a collection
WriteResult(ok, coll, modified, deleted) ==
  [ok |-> ok, coll |-> coll, modified |-> modified, deleted |-> deleted]

Updated(coll, i, d) ==
  WriteResult(TRUE, [coll EXCEPT ![i] = d], IF d = coll[i] THEN 0 ELSE 1, 0)

WriteAt(coll, w, i) ==
  IF w.op = "deleteOne"
  THEN IF i = 0 THEN WriteResult(TRUE, coll, 0, 0)
       ELSE WriteResult(TRUE, RemoveAt(coll, i), 0, 1)
  ELSE IF RejectedUpdate(w.set, w.unset) THEN WriteResult(FALSE, coll, 0, 0)
  ELSE IF i = 0 THEN WriteResult(TRUE, coll, 0, 0)
  ELSE Updated(coll, i, UpdateDoc(coll[i], w.set, w.unset))

WriteOne(coll, w) == WriteAt(coll, w, IndexOfId(coll, w.id))

Accumulate(acc, r) ==
  WriteResult(r.ok, r.coll, acc.modified + r.modified, acc.deleted + r.deleted)

RECURSIVE BulkFrom(_, _, _)
\* ordered bulkWrite: stops at the first rejected operation, the earlier
\* ones stay applied
BulkFrom(acc, ops, i) ==
  IF i > Len(ops) \/ ~acc.ok THEN acc
  ELSE BulkFrom(Accumulate(acc, WriteOne(acc.coll, ops[i])), ops, i + 1)

bulkWrite(coll, ops) == BulkFrom(WriteResult(TRUE, coll, 0, 0), ops, 1)

\* ---------------------------------------------------------------------
\* src/lib/validators.js determineEntityType
\* ---------------------------------------------------------------------
normalizeHeaders(headers) == {Trim(ToLowerCase(h)) : h \in headers}

entityMap ==
  << [entity |-> "clients", keys |-> {"clientid", "clientname", "prioritylevel"}],
     [entity |-> "workers", keys |-> {"workerid", "workername", "skills"}],
     [entity |-> "tasks", keys |-> {"taskid", "taskname", "duration"}] >>

\* the last kind of entityMap whose keys are all present
LastHit(hit) ==
  IF hit = {} THEN ""
  ELSE entityMap[CHOOSE i \in hit : \A j \in hit : i >= j].entity

\* "" stands for null
FirstHit(hit) ==
  IF hit = {} THEN ""
  ELSE entityMap[CHOOSE i \in hit : \A j \in hit : i <= j].entity

MatchingKinds(normalized) ==
  {i \in 1..Len(entityMap) : entityMap[i].keys \subseteq normalized}

determineEntityType(headers) ==
  FirstHit(MatchingKinds(normalizeHeaders(headers)))

\* ---------------------------------------------------------------------
\* Inputs of the model
\* ---------------------------------------------------------------------
MaxRules == 2

MaxEdits == 1

Cond(f, o, x) == [field |-> f, operator |-> o, value |-> x]
Act(ty, f, x) ==
  [type |-> ty, hasField |-> TRUE, field |-> f, value |-> x,
   additionalFields |-> <<>>]
ActNoField(ty, x) ==
  [type |-> ty, hasField |-> FALSE, field |-> "", value |-> x,
   additionalFields |-> <<>>]
Wrap(f, extra) ==
  [type |-> "wrap_string_in_json_message", hasField |-> TRUE, field |-> f,
   value |-> Undef, additionalFields |-> extra]
Rule(e, p, cs, as) ==
  [entityType |-> e, enabled |-> TRUE, typed |-> TRUE,
   hasPriority |-> TRUE, priority |-> p,
   hasConditions |-> TRUE, conditions |-> cs,
   hasActions |-> TRUE, actions |-> as]

\* rule documents a client may send; typed = it carries the `type` and
\* `payload` that POST /api/rules asks for
RulePool ==
  { Rule("clients", 10, <<>>, << Act("set_field", "Tier", Str("x")) >>),
    Rule("clients", 5, <<>>, << Act("set_field", "Tier", Str("y")) >>),
    Rule("clients", 10, <<>>, << Act("set_field", "Tier", Str("z")) >>),
    [Rule("general", 0, << Cond("AttributesJSON", "is_not_json", Bool(TRUE)) >>,
          << Wrap("AttributesJSON", [status |-> Str("pending")]),
             Wrap("AttributesJSON", [status |-> Str("pending")]) >>)
       EXCEPT !.hasPriority = FALSE],
    Rule("clients", 7, << Cond("ClientID", "exists", Bool(TRUE)) >>,
         << Act("set_field", "AttributesJSON.meta.level", Num(5)) >>),
    Rule("clients", 3, << Cond("PriorityLevel", "lt", Num(1)) >>,
         << Act("mark_error", "PriorityLevel", Str("too low")),
            Act("filter_out", "", Undef) >>),
    Rule("clients", 4,
         << Cond("Tier", "eq", Str("x")), Cond("PriorityLevel", "lt", Num(1)) >>,
         << Act("set_field", "Tier", Str("w")) >>),
    Rule("general", 6, <<>>,
         << Act("transform_value", "PriorityLevel", Num(9)),
            Act("rename_field", "ClientID", Str("Id")) >>),
    Rule("general", 1, <<>>, << Act("set_field", "_filteredOut", Bool(FALSE)) >>),
    Rule("tasks", 2, <<>>, << Act("set_field", "_filteredOut", Num(1)) >>),
    [Rule("clients", 0, <<>>, <<>>) EXCEPT !.hasConditions = FALSE],
    Rule("workers", 2, <<>>, << ActNoField("set_field", Num(1)) >>),
    [Rule("tasks", 4, << Cond("Duration", "gte", Num(1)) >>,
          << Act("set_field", "PreferredPhases", Null) >>) EXCEPT !.typed = FALSE],
    [Rule("clients", 9, <<>>, << Act("filter_out", "", Undef) >>)
       EXCEPT !.enabled = FALSE] }

\* parsed files: the rows of a CSV or XLSX sheet
FilePool ==
  { << [ClientID |-> Str("C1"), ClientName |-> Str("Acme"),
        PriorityLevel |-> Str("3"), AttributesJSON |-> Str("hello")],
       [ClientID |-> Str("C2"), ClientName |-> Str("Bolt"),
        PriorityLevel |-> Num(0), AttributesJSON |-> Str("{\"vip\": true}")] >>,
    << [WorkerID |-> Str("W1"), WorkerName |-> Str("Ann"),
        Skills |-> Str("a, b"), AvailableSlots |-> Str("5-3"),
        MaxLoadPerPhase |-> Num(2)] >>,
    << [TaskID |-> Str("T1"), TaskName |-> Str("Dig"), Duration |-> Num(2),
        PreferredPhases |-> Str("[1,2]"), MaxConcurrent |-> Str("1")] >>,
    << [TaskID |-> Str("T2"), TaskName |-> Str("Fill"), Duration |-> Num(1),
        MaxConcurrent |-> Str("1"), _filteredOut |-> Str("yes")] >>,
    << [Name |-> Str("n/a")] >> }

\* bodies of PUT /api/data/[entity], without the _id
PutPool ==
  { [AttributesJSON |-> Obj([meta |-> Obj([level |-> Num(1)])])],
    [PriorityLevel |-> Num(0)] }

\* ---------------------------------------------------------------------
\* State
\* ---------------------------------------------------------------------
VARIABLES
  rules,          \* the rules collection, in insertion order
  data,           \* data[kind]: the clients / workers / tasks collection
  pc,             \* where the apply-rules handler stands
  storedRules,    \* its local: the enabled rules it loaded
  ek,             \* its local: index into Entities of the kind in hand
  readData,       \* readData[kind]: what find({}).toArray() returned
  passes,         \* passes[kind]: the pass state of each record read, in order
  bulkOperations, \* bulkOperations[kind]: the batch built for the kind
  results,        \* its local: results[kind], for the kinds completed
  response,       \* its reply: [status, results]
  edits,          \* number of PUT requests served
  call            \* the library call made last: [fn, args, result]

\* the service: the collections and the apply-rules handler
service == << rules, data, pc, storedRules, ek, readData, passes,
              bulkOperations, results, response, edits >>

vars == << service, call >>

NoCall == [fn |-> "", args |-> <<>>, result |-> <<>>]

Kinds == {Entities[i] : i \in 1..Len(Entities)}

NoResult == [modifiedCount |-> 0, deletedCount |-> 0]

NoReply == [status |-> 0, results |-> <<>>]

\* insertMany gives row i of a file the ObjectId ids[i]
Inserted(entityType, parsedData, ids) ==
  [i \in 1..Len(parsedData) |->
     ("_id" :> Oid(ids[i])) @@ parsedData[i]]

\* parsedData.map(row => { ... row._validationErrors = errors ... })
validatedRow(entityType, row) ==
  IF Len(validateData(entityType, row)) > 0
  THEN ("_validationErrors" :> StrArr(validateData(entityType, row))) @@ row
  ELSE Without(row, "_validationErrors")

validatedRows(entityType, parsedData) ==
  [i \in 1..Len(parsedData) |-> validatedRow(entityType, parsedData[i])]

FileOf(entityType) ==
  CHOOSE f \in FilePool :
    /\ determineEntityType(DOMAIN f[1]) = entityType
    /\ "_filteredOut" \notin DOMAIN f[1]

\* The service starts on a database into which the three sheets have
\* been uploaded, with no rule stored yet.
Init ==
  /\ rules = <<>>
  /\ data = [k \in Kinds |->
               Inserted(k, validatedRows(k, FileOf(k)),
                        [i \in 1..Len(FileOf(k)) |-> i])]
  /\ pc = "idle"
  /\ storedRules = <<>>
  /\ ek = 1
  /\ readData = <<>>
  /\ passes = <<>>
  /\ bulkOperations = <<>>
  /\ results = <<>>
  /\ response = NoReply
  /\ edits = 0
  /\ call = NoCall

\* no apply-rules request is being handled
Idle == pc \in {"idle", "done"}

\* the locals of a finished apply-rules request are gone once another
\* request is served
Forget ==
  /\ pc' = "idle"
  /\ storedRules' = <<>>
  /\ ek' = 1
  /\ readData' = <<>>
  /\ passes' = <<>>
  /\ bulkOperations' = <<>>
  /\ results' = <<>>
  /\ response' = NoReply

\* ---------------------------------------------------------------------
\* src/app/api/rules/route.ts POST (add rule): 400 without type and payload
\* ---------------------------------------------------------------------
AddRule ==
  /\ Idle
  /\ \E newRule \in RulePool :
       IF ~newRule.typed THEN UNCHANGED rules
       ELSE /\ Len(rules) < MaxRules
            /\ rules' = Append(rules, newRule)
  /\ Forget
  /\ UNCHANGED << data, edits, call >>

\* ---------------------------------------------------------------------
\* src/app/api/data/[entity]/route.ts POST (natural language to rule): the
\* structured rule that came back is saved when it has conditions and
\* actions, else the reply is 400
\* ---------------------------------------------------------------------
SaveSuggestion ==
  /\ Idle
  /\ \E structuredRule \in RulePool :
       IF ~(structuredRule.hasConditions /\ Len(structuredRule.conditions) > 0)
          \/ ~(structuredRule.hasActions /\ Len(structuredRule.actions) > 0)
       THEN UNCHANGED rules
       ELSE /\ Len(rules) < MaxRules
            /\ rules' = Append(rules, structuredRule)
  /\ Forget
  /\ UNCHANGED << data, edits, call >>

\* ---------------------------------------------------------------------
\* src/app/api/upload/route.ts POST; the driver calls are taken to succeed.
\* deleteMany({}) then insertMany(validatedRows); 400 when the headers
\* name no kind.
\* ---------------------------------------------------------------------
RECURSIVE FreshIds(_, _, _)
\* ObjectIds that no request in flight holds
FreshIds(n, from, held) ==
  IF n = 0 THEN <<>>
  ELSE IF from \in held THEN FreshIds(n, from + 1, held)
  ELSE << from >> \o FreshIds(n - 1, from + 1, held)

HeldIds ==
  IF Idle THEN {}
  ELSE UNION {{readData[k][i]["_id"].v : i \in 1..Len(readData[k])} :
                k \in DOMAIN readData}

Stored(entityType, parsedData) ==
  IF entityType = "" THEN data
  ELSE [data EXCEPT ![entityType] =
          Inserted(entityType, validatedRows(entityType, parsedData),
                   FreshIds(Len(parsedData), 1, HeldIds))]

Upload ==
  /\ Idle
  /\ \E parsedData \in FilePool :
       data' = Stored(determineEntityType(DOMAIN parsedData[1]), parsedData)
  /\ Forget
  /\ UNCHANGED << rules, edits, call >>

\* ---------------------------------------------------------------------
\* src/app/api/data/[entity]/route.ts PUT
\* ---------------------------------------------------------------------
\* { ...updatedFields, _validationErrors: ... }
FinalUpdate(updatedFields, validationErrors) ==
  ("_validationErrors" :>
     (IF Len(validationErrors) > 0 THEN StrArr(validationErrors) ELSE Null))
  @@ updatedFields

\* updateOne({ _id }, { $set: finalUpdate }) on the document found
PutResult(entity, existingDoc, updatedFields) ==
  SetAll(existingDoc,
         FinalUpdate(updatedFields,
                     validateData(entity, updatedFields @@ existingDoc)))

PutDoc ==
  /\ Idle
  /\ edits < MaxEdits
  /\ edits' = edits + 1
  /\ \E entity \in Kinds, updatedFields \in PutPool :
     \E i \in 1..Len(data[entity]) :
       data' = [data EXCEPT ![entity][i] =
                  PutResult(entity, data[entity][i], updatedFields)]
  /\ Forget
  /\ UNCHANGED << rules, call >>

\* ---------------------------------------------------------------------
\* src/app/api/rules/route.ts POST (apply rules).  The handler gives up
\* control at its awaits only: loading the rules, reading a collection,
\* the bulk write.  A step is a database call together with the code that
\* runs on its return up to the next await.  A rejected promise or a
\* TypeError ends the handler in its catch block.
\* ---------------------------------------------------------------------
Fail500 ==
  /\ pc' = "done"
  /\ response' = [status |-> 500, results |-> <<>>]

RECURSIVE EnabledRules(_, _)
\* rulesCollection.find({ enabled: true }).toArray()
EnabledRules(rs, i) ==
  IF i > Len(rs) THEN <<>>
  ELSE (IF rs[i].enabled THEN << rs[i] >> ELSE <<>>) \o EnabledRules(rs, i + 1)

StartRun ==
  /\ Idle
  /\ \E ioError \in BOOLEAN :
       IF ioError
       THEN /\ Fail500
            /\ storedRules' = <<>>
       ELSE /\ pc' = "read"
            /\ storedRules' = EnabledRules(rules, 1)
            /\ response' = NoReply
  /\ ek' = 1
  /\ results' = <<>>
  /\ readData' = <<>>
  /\ passes' = <<>>
  /\ bulkOperations' = <<>>
  /\ UNCHANGED << rules, data, edits, call >>

RECURSIVE Passes(_, _, _, _)
RECURSIVE PassesFrom(_, _, _, _, _)
\* for (const originalDoc of currentData): the loop stops at a TypeError
Passes(entityType, currentData, rs, i) ==
  IF i > Len(currentData) THEN <<>>
  ELSE PassesFrom(entityType, currentData, rs, i,
                  ProcessRecord(entityType, currentData[i], rs))

PassesFrom(entityType, currentData, rs, i, st) ==
  IF st.thrown THEN << st >>
  ELSE << st >> \o Passes(entityType, currentData, rs, i + 1)

Thrown(ps) == Len(ps) > 0 /\ ps[Len(ps)].thrown

RECURSIVE OpsOf(_, _)
OpsOf(ps, i) ==
  IF i > Len(ps) THEN <<>> ELSE RecordOps(ps[i]) \o OpsOf(ps, i + 1)

\* results[entityType] = r; then the next kind, or the 200 reply
Advance(r) ==
  /\ results' = (Entities[ek] :> r) @@ results
  /\ IF ek < Len(Entities)
     THEN /\ ek' = ek + 1
          /\ pc' = "read"
          /\ response' = NoReply
     ELSE /\ ek' = ek
          /\ pc' = "done"
          /\ response' = [status |-> 200, results |-> results']

\* the loop over the records read, up to the bulk write or, with an empty
\* batch, to the next kind
Looped(ps) ==
  /\ passes' = (Entities[ek] :> ps) @@ passes
  /\ IF Thrown(ps)
     THEN /\ Fail500
          /\ UNCHANGED << bulkOperations, ek, results >>
     ELSE /\ bulkOperations' = (Entities[ek] :> OpsOf(ps, 1)) @@ bulkOperations
          /\ IF Len(OpsOf(ps, 1)) > 0
             THEN /\ pc' = "write"
                  /\ UNCHANGED << ek, results, response >>
             ELSE Advance(NoResult)

\* await dataCollection.find({}).toArray(), then the loop
ReadData ==
  /\ pc = "read"
  /\ \E ioError \in BOOLEAN :
       IF ioError
       THEN /\ Fail500
            /\ UNCHANGED << readData, passes, bulkOperations, ek, results >>
       ELSE /\ readData' = (Entities[ek] :> data[Entities[ek]]) @@ readData
            /\ Looped(Passes(Entities[ek], data[Entities[ek]], storedRules, 1))
  /\ UNCHANGED << rules, data, storedRules, edits, call >>

\* what the bulk write r leaves: the collection as written, and either the
\* counts and the next kind or the catch block
Wrote(r) ==
  /\ data' = [data EXCEPT ![Entities[ek]] = r.coll]
  /\ IF r.ok
     THEN Advance([modifiedCount |-> r.modified, deletedCount |-> r.deleted])
     ELSE /\ Fail500
          /\ UNCHANGED << ek, results >>

\* await dataCollection.bulkWrite(bulkOperations)
BulkWrite ==
  /\ pc = "write"
  /\ \E ioError \in BOOLEAN :
       IF ioError
       THEN /\ Fail500
            /\ UNCHANGED << data, ek, results >>
       ELSE Wrote(bulkWrite(data[Entities[ek]], bulkOperations[Entities[ek]]))
  /\ UNCHANGED << rules, storedRules, readData, passes, bulkOperations,
                  edits, call >>

Next ==
  \/ AddRule
  \/ SaveSuggestion
  \/ Upload
  \/ StartRun
  \/ ReadData
  \/ BulkWrite

\* requests are served one at a time; no record is edited by hand
Spec == Init /\ [][Next]_vars

NextEdit ==
  \/ Next
  \/ PutDoc

\* the same with PUT requests between the others
SpecEdit == Init /\ [][NextEdit]_vars

\* a PUT served while the apply-rules handler waits for the database
PutRace ==
  /\ pc \in {"read", "write"}
  /\ edits < MaxEdits
  /\ edits' = edits + 1
  /\ \E entity \in Kinds, updatedFields \in PutPool :
     \E i \in 1..Len(data[entity]) :
       data' = [data EXCEPT ![entity][i] =
                  PutResult(entity, data[entity][i], updatedFields)]
  /\ UNCHANGED << rules, pc, storedRules, ek, readData, passes,
                  bulkOperations, results, response, call >>

NextRace ==
  \/ StartRun
  \/ ReadData
  \/ BulkWrite
  \/ PutDoc
  \/ PutRace

\* engine runs and PUT requests that overlap, with no rule stored
SpecRace == Init /\ [][NextRace]_vars

\* ---------------------------------------------------------------------
\* Calls of src/lib/validators.js on their own.  The inputs are drawn from
\* the pools below; an entry pairs the value passed with what is known of
\* it by hand (its normal form, the integer it stands for, ...).
\* ---------------------------------------------------------------------
HeaderPool ==
  { [raw |-> " ClientID ", norm |-> "clientid"],
    [raw |-> "CLIENTNAME", norm |-> "clientname"],
    [raw |-> "PriorityLevel", norm |-> "prioritylevel"],
    [raw |-> "WorkerID", norm |-> "workerid"],
    [raw |-> "workername ", norm |-> "workername"],
    [raw |-> "Skills", norm |-> "skills"],
    [raw |-> "TaskID", norm |-> "taskid"],
    [raw |-> "TaskName", norm |-> "taskname"],
    [raw |-> " DURATION", norm |-> "duration"],
    [raw |-> "Notes", norm |-> "notes"] }

\* PriorityLevel values; isInt, parsed: what parseInt makes of v (the
\* integer at the head of the text, after blanks and a sign)
PriorityPool ==
  { [v |-> Undef, isInt |-> FALSE, parsed |-> 0],
    [v |-> Null, isInt |-> FALSE, parsed |-> 0],
    [v |-> Num(0), isInt |-> TRUE, parsed |-> 0],
    [v |-> Num(1), isInt |-> TRUE, parsed |-> 1],
    [v |-> Num(3), isInt |-> TRUE, parsed |-> 3],
    [v |-> Num(5), isInt |-> TRUE, parsed |-> 5],
    [v |-> Num(6), isInt |-> TRUE, parsed |-> 6],
    [v |-> Str("3"), isInt |-> TRUE, parsed |-> 3],
    [v |-> Str(" 4 "), isInt |-> TRUE, parsed |-> 4],
    [v |-> Str("-2"), isInt |-> TRUE, parsed |-> 0 - 2],
    [v |-> Str("3abc"), isInt |-> TRUE, parsed |-> 3],
    [v |-> Str("9.5"), isInt |-> TRUE, parsed |-> 9],
    [v |-> Str("abc"), isInt |-> FALSE, parsed |-> 0],
    [v |-> Str(""), isInt |-> FALSE, parsed |-> 0],
    [v |-> Bool(TRUE), isInt |-> FALSE, parsed |-> 0] }

\* AttributesJSON values; valid: a JSON-parseable string or a non-null
\* object
AttrPool ==
  { [v |-> Undef, valid |-> TRUE],
    [v |-> Str("hello"), valid |-> FALSE],
    [v |-> Str("{\"vip\": true}"), valid |-> TRUE],
    [v |-> Str("12"), valid |-> TRUE],
    [v |-> Obj([vip |-> Bool(TRUE)]), valid |-> TRUE],
    [v |-> Null, valid |-> FALSE],
    [v |-> Num(5), valid |-> FALSE],
    [v |-> Bool(FALSE), valid |-> FALSE] }

IdPool == {Undef, Str("C1"), Str("  "), Num(7)}

\* fields that no validator reads
ExtraPool ==
  { <<>>,
    [_validationErrors |-> Arr(<< Str("Tier: stale") >>),
     _filteredOut |-> Bool(TRUE), Tier |-> Str("x")] }

Opt(key, v) == IF v = Undef THEN <<>> ELSE key :> v

ClientRows ==
  { extra @@ Opt("ClientID", id) @@ Opt("PriorityLevel", pri.v)
          @@ Opt("AttributesJSON", attr.v) :
      id \in IdPool, pri \in PriorityPool, attr \in AttrPool,
      extra \in ExtraPool }

\* phase lists; want: the list the text stands for, Null when malformed;
\* signed: a number of the text carries a minus sign
PhasePool ==
  { [v |-> Str("1-3"), want |-> Arr(<< Num(1), Num(2), Num(3) >>), signed |-> FALSE],
    [v |-> Str("1,2,3"), want |-> Arr(<< Num(1), Num(2), Num(3) >>), signed |-> FALSE],
    [v |-> Str("[1,2,3]"), want |-> Arr(<< Num(1), Num(2), Num(3) >>), signed |-> FALSE],
    [v |-> Str("5-3"), want |-> Null, signed |-> FALSE],
    [v |-> Str("abc"), want |-> Null, signed |-> FALSE],
    [v |-> Str("x-y"), want |-> Null, signed |-> FALSE],
    [v |-> Str(""), want |-> Arr(<<>>), signed |-> FALSE],
    [v |-> Str("   "), want |-> Arr(<<>>), signed |-> FALSE],
    [v |-> Num(5), want |-> Arr(<<>>), signed |-> FALSE],
    [v |-> Null, want |-> Arr(<<>>), signed |-> FALSE],
    [v |-> Undef, want |-> Arr(<<>>), signed |-> FALSE],
    [v |-> Str("2-2"), want |-> Arr(<< Num(2) >>), signed |-> FALSE],
    [v |-> Str(" 1 - 2 "), want |-> Arr(<< Num(1), Num(2) >>), signed |-> FALSE],
    [v |-> Str("1,x,3"), want |-> Arr(<< Num(1), Num(3) >>), signed |-> FALSE],
    [v |-> Str("7"), want |-> Arr(<< Num(7) >>), signed |-> FALSE],
    [v |-> Str("[]"), want |-> Arr(<<>>), signed |-> FALSE],
    [v |-> Str("-1-1"),
     want |-> Arr(<< Num(0 - 1), Num(0), Num(1) >>), signed |-> TRUE],
    [v |-> Str("-3--2"),
     want |-> Arr(<< Num(0 - 3), Num(0 - 2) >>), signed |-> TRUE],
    [v |-> Str("1,-2"), want |-> Arr(<< Num(1), Num(0 - 2) >>), signed |-> TRUE] }

WorkerRows ==
  { extra @@ Opt("WorkerID", id) @@ Opt("AvailableSlots", slots.v)
          @@ ("MaxLoadPerPhase" :> Num(2)) :
      id \in IdPool, slots \in PhasePool, extra \in ExtraPool }

TaskRows ==
  { extra @@ Opt("TaskID", id) @@ Opt("Duration", pri.v)
          @@ ("MaxConcurrent" :> Str("1")) :
      id \in {Str("T1")}, pri \in PriorityPool, extra \in ExtraPool }

\* names that are none of the three kinds
OtherKinds == {"orders", "general", "Clients", ""}

RowsOf(k) ==
  CASE k = "clients" -> ClientRows
    [] k = "workers" -> WorkerRows
    [] k = "tasks" -> TaskRows
    [] OTHER -> {r \in ClientRows : Field(r, "ClientID") # Str("  ")}

CallDetermineEntityType ==
  /\ call = NoCall
  /\ \E hs \in SUBSET HeaderPool :
       call' = [fn |-> "determineEntityType",
                args |-> {h.raw : h \in hs},
                result |-> determineEntityType({h.raw : h \in hs})]
  /\ UNCHANGED service

CallValidateData ==
  /\ call = NoCall
  /\ \E k \in Kinds \cup OtherKinds : \E row \in RowsOf(k) :
       call' = [fn |-> "validateData", args |-> << k, row >>,
                result |-> validateData(k, row)]
  /\ UNCHANGED service

CallParsePhases ==
  /\ call = NoCall
  /\ \E e \in PhasePool :
       call' = [fn |-> "parsePhases", args |-> e.v,
                result |-> parsePhases(e.v)]
  /\ UNCHANGED service

\* the operators of the switch, the three tested before it, and two that
\* the code does not know
OperatorPool ==
  { "eq", "ne", "gt", "lt", "gte", "lte", "contains", "startsWith",
    "endsWith", "in", "nin", "exists", "is_string", "is_not_json",
    "matches", "" }

\* a record with nested, null and scalar fields
Nested ==
  [A |-> Str("hello"), P |-> Num(3), N |-> Null, B |-> Bool(TRUE),
   O |-> Obj([b |-> Num(1), n |-> Null, s |-> Str("hello")]),
   L |-> Arr(<< Num(3) >>)]

\* paths into Nested; nullish: the path ends on nothing or on null
FieldPool ==
  { [path |-> "A", nullish |-> FALSE],
    [path |-> "P", nullish |-> FALSE],
    [path |-> "B", nullish |-> FALSE],
    [path |-> "O", nullish |-> FALSE],
    [path |-> "L", nullish |-> FALSE],
    [path |-> "O.b", nullish |-> FALSE],
    [path |-> "O.s", nullish |-> FALSE],
    [path |-> "N", nullish |-> TRUE],
    [path |-> "X", nullish |-> TRUE],
    [path |-> "O.n", nullish |-> TRUE],
    [path |-> "O.c", nullish |-> TRUE],
    [path |-> "O.c.d", nullish |-> TRUE],
    [path |-> "X.b", nullish |-> TRUE],
    [path |-> "N.b", nullish |-> TRUE],
    [path |-> "A.b", nullish |-> TRUE],
    [path |-> "P.b", nullish |-> TRUE],
    [path |-> "B.b", nullish |-> TRUE],
    [path |-> "O.b.c", nullish |-> TRUE] }

\* values of condition.value; Undef: the property is missing
ConditionValues ==
  { Bool(TRUE), Bool(FALSE), Num(3), Num(0), Str("hello"), Str("true"),
    Null, Undef, Arr(<< Null, Num(3) >>) }

\* field values and condition values that face each other
ScalarPool ==
  { Num(3), Num(4), Num(0 - 2), Str("3"), Str(" 4 "), Str("-2"), Str("03"),
    Str("abc"), Bool(TRUE), Bool(FALSE), Str("true"), Str("TRUE"),
    Str("False"), Str("fAlSe") }

CallEvaluateOnPath ==
  /\ call = NoCall
  /\ \E f \in FieldPool, op \in OperatorPool, x \in ConditionValues :
       call' = [fn |-> "evaluateCondition",
                args |-> << Nested, Cond(f.path, op, x) >>,
                result |-> evaluateCondition(Nested, Cond(f.path, op, x))]
  /\ UNCHANGED service

CallEvaluateOnValue ==
  /\ call = NoCall
  /\ \E v \in ScalarPool, x \in ScalarPool, op \in OperatorPool :
       call' = [fn |-> "evaluateCondition",
                args |-> << [F |-> v], Cond("F", op, x) >>,
                result |-> evaluateCondition([F |-> v], Cond("F", op, x))]
  /\ UNCHANGED service

NextLib ==
  \/ CallDetermineEntityType
  \/ CallValidateData
  \/ CallParsePhases
  \/ CallEvaluateOnPath
  \/ CallEvaluateOnValue

\* one call of the library with an input of the pools
SpecLib == Init /\ [][NextLib]_vars

\* ---------------------------------------------------------------------
\* Properties of an engine run.  passes[k][i] is the pass state of the
\* record readData[k][i]; a pass that threw never reached line 291.
\* ---------------------------------------------------------------------
Recs(k) == 1..Len(passes[k])

Completed(st) == ~st.thrown

Marked(st) == Truthy(Field(st.doc, "_filteredOut"))

IdOf(k, i) == readData[k][i]["_id"]

Fired(st, type) == \E j \in 1..Len(st.log) : st.log[j].type = type

Top(path) == Split(path, ".")[1]

Dotted(path) == Includes(path, ".")

\* currentErrors.length > 0 ? currentErrors : null
ErrorsValue(errs) == IF Len(errs) > 0 THEN StrArr(errs) ELSE Null

\* C1: for every record an engine run has processed, `_validationErrors`
\* on the final clone is what validateData returns for the clone's other
\* fields, null when that list is empty, whatever mark_error appended.
C1_ErrorsAreValidatorOutput ==
  \A k \in DOMAIN passes : \A i \in Recs(k) :
    Completed(passes[k][i]) =>
      Field(passes[k][i].doc, "_validationErrors") =
        ErrorsValue(validateData(k, Without(passes[k][i].doc,
                                            "_validationErrors")))

\* a completed pass in which mark_error ran on a record that the validator
\* rejects, the marked text not being among the final errors
C1_Witness ==
  \E k \in DOMAIN passes : \E i \in Recs(k) :
    /\ Completed(passes[k][i])
    /\ Field(passes[k][i].doc, "_validationErrors").t = "arr"
    /\ \E j \in 1..Len(passes[k][i].log) :
         /\ passes[k][i].log[j].type = "mark_error"
         /\ ~ArrIncludes(Field(passes[k][i].doc, "_validationErrors").v,
                         ErrorText(passes[k][i].log[j]))

\* no later action of the log writes under the first segment of log[j].field
LastWrite(log, j) ==
  \A n \in (j + 1)..Len(log) :
    ~(log[n].hasField /\ log[n].type \in {"set_field", "wrap_string_in_json_message"}
      /\ Top(log[n].field) = Top(log[j].field))

\* the update of record i of kind k in the batch carries value at path
SetInBatch(k, i, path, value) ==
  \E n \in 1..Len(bulkOperations[k]) :
    /\ bulkOperations[k][n].id = IdOf(k, i)
    /\ bulkOperations[k][n].op = "updateOne"
    /\ path \notin bulkOperations[k][n].unset
    /\ getNestedProperty(UpdateDoc(readData[k][i], bulkOperations[k][n].set,
                                   bulkOperations[k][n].unset), path) = value

\* C2: a set_field that fired on a record that is not deleted is written by
\* the record's update as a set of its non-null value, never as an unset,
\* dotted paths included, and changedFields holds top-level names only.
C2_SetFieldIsSet ==
  \A k \in DOMAIN bulkOperations : \A i \in Recs(k) :
    ~Marked(passes[k][i]) =>
      /\ \A f \in passes[k][i].changed : ~Dotted(f)
      /\ \A j \in 1..Len(passes[k][i].log) :
           ( /\ passes[k][i].log[j].type = "set_field"
             /\ ~IsNullish(passes[k][i].log[j].value)
             /\ Top(passes[k][i].log[j].field) # "_validationErrors"
             /\ LastWrite(passes[k][i].log, j) )
           => SetInBatch(k, i, passes[k][i].log[j].field,
                         passes[k][i].log[j].value)

\* C3: originalDoc, its nested objects and its `_validationErrors` array
\* included, still equals what was read once the rules have been applied.
C3_SnapshotUntouched ==
  \A k \in DOMAIN passes : \A i \in Recs(k) :
    passes[k][i].orig = readData[k][i]

NothingThrown == \A k \in DOMAIN passes : ~Thrown(passes[k])

\* C4: when the read or the bulk write of one kind fails, the reply still
\* carries the counts of every kind whose processing completed.
C4_ResultsSurviveFailure ==
  (pc = "done" /\ NothingThrown) =>
    \A k \in DOMAIN results :
      k \in DOMAIN response.results /\ response.results[k] = results[k]

\* rule x of storedRules applies to kind k
Applicable(k) ==
  {x \in 1..Len(storedRules) : storedRules[x].entityType \in {k, "general"}}

\* rule x runs before rule y: higher priority, or equal and stored earlier
Before(x, y) ==
  \/ Pri(storedRules[x]) > Pri(storedRules[y])
  \/ Pri(storedRules[x]) = Pri(storedRules[y]) /\ x < y

Rank(k, x) == Cardinality({y \in Applicable(k) : Before(y, x)}) + 1

InOrder(k) ==
  [n \in 1..Cardinality(Applicable(k)) |->
     storedRules[CHOOSE x \in Applicable(k) : Rank(k, x) = n]]

RECURSIVE AllActions(_, _)
AllActions(rs, n) ==
  IF n > Len(rs) THEN <<>> ELSE rs[n].actions \o AllActions(rs, n + 1)

Unconditional(r) == r.hasConditions /\ r.conditions = <<>> /\ r.hasActions

\* rule r does nothing but set the top-level field F
SetsOnly(r, F) ==
  /\ Unconditional(r)
  /\ Len(r.actions) = 1
  /\ r.actions[1].type = "set_field"
  /\ r.actions[1].hasField
  /\ r.actions[1].field = F

\* some action of rule r writes under the top-level field F
Writes(r, F) ==
  r.hasActions /\ \E j \in 1..Len(r.actions) :
    \/ r.actions[j].type = "filter_out" /\ F = "_filteredOut"
    \/ /\ r.actions[j].type \in {"set_field", "wrap_string_in_json_message"}
       /\ r.actions[j].hasField
       /\ Top(r.actions[j].field) = F

\* C5: the applicable rules run in descending priority (none = 0), equal
\* priorities in stored order; so when two matching rules set the same
\* field, the record ends with the value of the rule of lower priority.
C5_DescendingPriority ==
  \A k \in DOMAIN passes :
    /\ ApplicableRules(storedRules, k) = InOrder(k)
    /\ \A i \in Recs(k) :
         Completed(passes[k][i]) =>
           /\ (\A x \in Applicable(k) : Unconditional(storedRules[x]))
                => passes[k][i].log = AllActions(InOrder(k), 1)
           /\ \A x \in Applicable(k), y \in Applicable(k) :
                \A F \in DOMAIN passes[k][i].doc \ {"_validationErrors"} :
                  ( /\ Before(x, y)
                    /\ SetsOnly(storedRules[x], F)
                    /\ SetsOnly(storedRules[y], F)
                    /\ \A z \in Applicable(k) \ {x, y} :
                         ~Writes(storedRules[z], F) )
                  => passes[k][i].doc[F] = storedRules[y].actions[1].value

\* priority 10 sets Tier = "x", priority 5 sets Tier = "y", stored in either
\* order: the record ends with "y"
C5_Witness ==
  \E k \in DOMAIN passes : \E i \in Recs(k) :
    /\ Completed(passes[k][i])
    /\ \E x \in Applicable(k), y \in Applicable(k) :
         /\ Pri(storedRules[x]) = 10 /\ SetsOnly(storedRules[x], "Tier")
         /\ Pri(storedRules[y]) = 5 /\ SetsOnly(storedRules[y], "Tier")
         /\ y < x
    /\ Field(passes[k][i].doc, "Tier") = Str("y")

\* C6: a record on which filter_out fired is absent from its collection
\* once the bulk operations of the run have been applied to its kind.
C6_FilteredOutIsAbsent ==
  \A k \in DOMAIN results \cap DOMAIN passes : \A i \in Recs(k) :
    Fired(passes[k][i], "filter_out") =>
      \A n \in 1..Len(data[k]) : data[k][n]["_id"] # IdOf(k, i)

OpsFor(k, id) ==
  {n \in 1..Len(bulkOperations[k]) : bulkOperations[k][n].id = id}

\* C7: for a record whose final clone has a truthy `_filteredOut`, the
\* batch holds exactly one operation, a delete of its _id, and no update.
C7_DeleteOnly ==
  \A k \in DOMAIN bulkOperations : \A i \in Recs(k) :
    Marked(passes[k][i]) =>
      /\ Cardinality(OpsFor(k, IdOf(k, i))) = 1
      /\ \A n \in OpsFor(k, IdOf(k, i)) : bulkOperations[k][n].op = "deleteOne"

\* a record marked for deletion on which another field changed as well
C7_Witness ==
  \E k \in DOMAIN bulkOperations : \E i \in Recs(k) :
    /\ Marked(passes[k][i])
    /\ Cardinality(passes[k][i].changed) > 2
    /\ OpsFor(k, IdOf(k, i)) # {}

\* the wrap actions of the rules loaded
StoredWraps ==
  UNION {{storedRules[x].actions[j] : j \in 1..Len(storedRules[x].actions)} :
           x \in 1..Len(storedRules)}
  \cap [type : {"wrap_string_in_json_message"}, hasField : {TRUE},
        field : {"AttributesJSON"}, value : {Undef},
        additionalFields : {[status |-> Str("pending")]}]

\* s1 is s0 after one wrap w of a field that held x
WrappedOnce(s0, w, x, s1) ==
  IF TypeOf(x) = "string" /\ ~isValidJsonString(x.v)
  THEN /\ s1.changed = {w.field}
       /\ getNestedProperty(s1.doc, w.field).t = "obj"
       /\ DOMAIN getNestedProperty(s1.doc, w.field).v
            = {"message"} \cup DOMAIN w.additionalFields
       /\ \A key \in DOMAIN w.additionalFields :
            getNestedProperty(s1.doc, w.field).v[key] = w.additionalFields[key]
       /\ "message" \in DOMAIN w.additionalFields
            \/ getNestedProperty(s1.doc, w.field).v["message"] = x
  ELSE s1 = [s0 EXCEPT !.log = << w >>]

WrapTwice(s0, w, s1) ==
  /\ WrappedOnce(s0, w, getNestedProperty(s0.doc, w.field), s1)
  /\ ApplyAction(s1, w) = [s1 EXCEPT !.log = << w, w >>]

SameButLog(a, b) == [a EXCEPT !.log = <<>>] = [b EXCEPT !.log = <<>>]

\* C8: a second wrap_string_in_json_message of the same field changes
\* nothing, the changed set included; the first turns a string that is not
\* JSON into {message, ...additionalFields} and is a no-op on anything else.
C8_WrapTwiceIsWrapOnce ==
  \A k \in DOMAIN passes : \A i \in Recs(k) : \A w \in StoredWraps :
    /\ WrapTwice(StartPass(readData[k][i]), w,
                 ApplyAction(StartPass(readData[k][i]), w))
    /\ (Completed(passes[k][i]) /\ passes[k][i].log = << w, w >>)
         => SameButLog(passes[k][i],
                       Revalidate(ApplyAction(StartPass(readData[k][i]), w), k))

\* a pass that ran the wrap twice on a string that is not JSON
C8_Witness ==
  \E k \in DOMAIN passes : \E i \in Recs(k) : \E w \in StoredWraps :
    /\ Completed(passes[k][i])
    /\ passes[k][i].log = << w, w >>
    /\ Field(readData[k][i], "AttributesJSON") = Str("hello")
    /\ Field(passes[k][i].doc, "AttributesJSON")
         = Obj([message |-> Str("hello"), status |-> Str("pending")])

\* paths and values on which setNestedProperty is exercised
PathPool ==
  {"Tier", "AttributesJSON.meta.level", "AttributesJSON.meta",
   "PriorityLevel.rank", "extra.note"}

ValuePool == {Num(5), Str("v"), Null, Obj([n |-> Num(1)])}

\* what is held at the first n segments
Held(obj, parts, n) == GetFrom(Obj(obj), SubSeq(parts, 1, n), 1)

\* r is obj with value written at parts
SetGetHolds(obj, parts, value, r) ==
  /\ GetFrom(Obj(r), parts, 1) = value
  /\ \A f \in (DOMAIN obj \cup DOMAIN r) \ {parts[1]} :
       Field(r, f) = Field(obj, f)
  /\ \A n \in 1..(Len(parts) - 1) :
       /\ Held(r, parts, n).t = "obj"
       /\ IF NotDescendable(Held(obj, parts, n))
          THEN DOMAIN Held(r, parts, n).v = {parts[n + 1]}
          ELSE \A key \in DOMAIN Held(obj, parts, n).v \ {parts[n + 1]} :
                 Field(Held(r, parts, n).v, key) = Held(obj, parts, n).v[key]

SetGetOk(obj, path, value) ==
  /\ SetGetHolds(obj, Split(path, "."), value,
                 setNestedProperty(obj, path, value))
  /\ (path = "AttributesJSON.meta.level" /\ "AttributesJSON" \notin DOMAIN obj)
       => setNestedProperty(obj, path, value)["AttributesJSON"]
            = Obj([meta |-> Obj([level |-> value])])

\* C9: getNestedProperty reads back what setNestedProperty wrote at a dotted
\* path; a missing, non-object or null intermediate segment becomes an
\* object; the other top-level fields are unchanged.
C9_SetThenGet ==
  \A k \in DOMAIN passes : \A i \in Recs(k) :
    /\ \A path \in PathPool, value \in ValuePool :
         /\ SetGetOk(readData[k][i], path, value)
         /\ SetGetOk(passes[k][i].doc, path, value)
    /\ Completed(passes[k][i]) =>
         \A j \in 1..Len(passes[k][i].log) :
           ( /\ passes[k][i].log[j].type = "set_field"
             /\ LastWrite(passes[k][i].log, j) )
           => getNestedProperty(passes[k][i].doc, passes[k][i].log[j].field)
                = passes[k][i].log[j].value

\* set_field on a dotted path has run through a string, and a record without
\* AttributesJSON has been read
C9_Witness ==
  /\ \E k \in DOMAIN passes : \E i \in Recs(k) :
       /\ Completed(passes[k][i])
       /\ Field(readData[k][i], "AttributesJSON") = Str("hello")
       /\ \E j \in 1..Len(passes[k][i].log) :
            /\ passes[k][i].log[j].type = "set_field"
            /\ Dotted(passes[k][i].log[j].field)
       /\ Field(passes[k][i].doc, "AttributesJSON")
            = Obj([meta |-> Obj([level |-> Num(5)])])
  /\ \E k \in DOMAIN readData : \E i \in 1..Len(readData[k]) :
       "AttributesJSON" \notin DOMAIN readData[k][i]

\* C10: whatever the stored rules and records hold, condition and action
\* evaluation ends in a match, a skip or a no-op: no pass of a run throws.
C10_NoContentFailsRun == NothingThrown

\* the stored `_validationErrors` of doc is what the validator returns
\* for it, absent or null standing for the empty list
ErrorsCurrent(k, doc) ==
  IF IsNullish(Field(doc, "_validationErrors"))
  THEN validateData(k, doc) = <<>>
  ELSE Field(doc, "_validationErrors") = StrArr(validateData(k, doc))

StoredErrorsCurrent ==
  \A k \in Kinds : \A n \in 1..Len(data[k]) : ErrorsCurrent(k, data[k][n])

\* no stored rule writes a dotted path
NoDottedRule ==
  \A x \in 1..Len(rules) : \A j \in 1..Len(rules[x].actions) :
    ~Dotted(rules[x].actions[j].field)

\* C11: whatever engine runs and single-record updates have been served
\* one after the other, the `_validationErrors` of every stored record is
\* validateData of the record as stored (absent or null = no error).
\* Stated for the rule sets without a dotted path, which leaves the
\* unset of a dotted path out of the picture.
C11_StoredErrorsCurrent == NoDottedRule => StoredErrorsCurrent

\* C12: when a PUT commits between the snapshot read and the bulk write of
\* an engine run, the later write wins and, both requests done, the stored
\* `_validationErrors` of every record is validateData of the record as
\* stored.
C12_RaceKeepsErrorsCurrent ==
  (pc = "done" /\ response.status = 200) => StoredErrorsCurrent

\* ---------------------------------------------------------------------
\* Properties of the validators called on their own.
\* ---------------------------------------------------------------------
Called(fn) == call.fn = fn

\* the lowercased, trimmed names of the headers passed
Norms == {h.norm : h \in {x \in HeaderPool : x.raw \in call.args}}

ClientKeys == {"clientid", "clientname", "prioritylevel"}
WorkerKeys == {"workerid", "workername", "skills"}
TaskKeys == {"taskid", "taskname", "duration"}

\* "" stands for null
KindOfHeaders(norms) ==
  IF ClientKeys \subseteq norms THEN "clients"
  ELSE IF WorkerKeys \subseteq norms THEN "workers"
  ELSE IF TaskKeys \subseteq norms THEN "tasks"
  ELSE ""

\* C13: determineEntityType lowercases and trims the headers and returns
\* the first kind, in the order clients, workers, tasks, whose three keys
\* are all present, and null when no kind has all its keys; headers with
\* the keys of both clients and workers give clients.
C13_FirstKindWithAllKeys ==
  Called("determineEntityType") => call.result = KindOfHeaders(Norms)

\* headers that carry the keys of clients and of workers were classified
C13_Witness ==
  /\ Called("determineEntityType")
  /\ ClientKeys \cup WorkerKeys \subseteq Norms
  /\ call.result = "clients"

KindArg == call.args[1]
RowArg == call.args[2]
Reports(msg) == \E n \in 1..Len(call.result) : call.result[n] = msg

PriorityError == "PriorityLevel: Must be an integer between 1 and 5."

\* the entry of PriorityPool for the PriorityLevel of the record passed
PriorityEntry == CHOOSE e \in PriorityPool : e.v = Field(RowArg, "PriorityLevel")

\* C14: validateData('clients', r) contains the PriorityLevel error if and
\* only if PriorityLevel does not parse as an integer or the parsed integer
\* is below 1 or above 5, whatever the other fields of r are.
C14_PriorityErrorIffOutOfRange ==
  (Called("validateData") /\ KindArg = "clients") =>
    (Reports(PriorityError) <=>
       (~PriorityEntry.isInt \/ PriorityEntry.parsed < 1 \/ PriorityEntry.parsed > 5))

\* PriorityLevel 0 was reported on a record whose other fields are at fault
\* as well
C14_Witness ==
  /\ Called("validateData") /\ KindArg = "clients"
  /\ Field(RowArg, "PriorityLevel") = Num(0)
  /\ Field(RowArg, "ClientID") = Undef
  /\ Field(RowArg, "AttributesJSON") = Str("hello")
  /\ Reports(PriorityError)

AttributesErrorTexts ==
  { "AttributesJSON: Malformed JSON string.",
    "AttributesJSON: Must be a valid object or JSON string." }

\* the entry of AttrPool for the AttributesJSON of the record passed
AttrEntry == CHOOSE e \in AttrPool : e.v = Field(RowArg, "AttributesJSON")

\* C15: for a clients record in which AttributesJSON is present,
\* validateData reports an AttributesJSON error unless the value is a
\* JSON-parseable string or a non-null object; AttributesJSON = null gets
\* the error.
C15_AttributesErrorUnlessValid ==
  (/\ Called("validateData") /\ KindArg = "clients"
   /\ Field(RowArg, "AttributesJSON") # Undef)
    => ((\E msg \in AttributesErrorTexts : Reports(msg)) <=> ~AttrEntry.valid)

\* the same with null left aside
C15_ExceptNull ==
  (/\ Called("validateData") /\ KindArg = "clients"
   /\ Field(RowArg, "AttributesJSON") \notin {Undef, Null})
    => ((\E msg \in AttributesErrorTexts : Reports(msg)) <=> ~AttrEntry.valid)

\* C16: for a kind other than clients, workers and tasks, validateData
\* returns a list of exactly one element, the generic unknown-entity error,
\* whatever the record holds.
C16_UnknownKindOneError ==
  (Called("validateData") /\ KindArg \notin {"clients", "workers", "tasks"})
    => call.result = << "Unknown entity type." >>

\* a record that is faulty as a client was passed under the kind
\* orders
C16_Witness ==
  /\ Called("validateData") /\ KindArg = "orders"
  /\ Field(RowArg, "ClientID") = Undef
  /\ Field(RowArg, "PriorityLevel") = Num(0)
  /\ Field(RowArg, "AttributesJSON") = Str("hello")
  /\ Len(call.result) = 1

\* the entry of PhasePool for the value passed
PhaseEntry == CHOOSE e \in PhasePool : e.v = call.args

\* C17: parsePhases returns the array for a JSON array of numbers, the
\* inclusive range for "a-b" with integers a <= b, null for "a-b" with
\* a > b and for a string with no parseable number, the parsed integers
\* for a comma list with a numeric token, and the empty list for a blank or
\* non-string value.
C17_PhasesAsWritten == Called("parsePhases") => call.result = PhaseEntry.want

\* C17, for numbers written without a sign in the range and in the comma
\* list: the same results.
C17_UnsignedPhasesAsWritten ==
  (Called("parsePhases") /\ ~PhaseEntry.signed) => call.result = PhaseEntry.want

\* the range "1-3" was parsed to [1, 2, 3]
C17_Witness ==
  /\ Called("parsePhases")
  /\ call.args = Str("1-3")
  /\ call.result = Arr(<< Num(1), Num(2), Num(3) >>)

\* the fields of the sheets
SchemaFields(k) ==
  CASE k = "clients" ->
         {"ClientID", "ClientName", "PriorityLevel", "RequestedTaskIDs",
          "GroupTag", "AttributesJSON"}
    [] k = "workers" ->
         {"WorkerID", "WorkerName", "Skills", "AvailableSlots",
          "MaxLoadPerPhase", "WorkerGroup", "QualificationLevel"}
    [] k = "tasks" ->
         {"TaskID", "TaskName", "Category", "Duration", "RequiredSkills",
          "PreferredPhases", "MaxConcurrent"}
    [] OTHER -> {}

OnlySchema(k, row) == [f \in (DOMAIN row) \cap SchemaFields(k) |-> row[f]]

\* C18: the result of validateData(kind, r) depends only on kind and the
\* schema fields of r: a record that also carries _validationErrors,
\* _filteredOut or a non-schema field gets the list, in the same order, of
\* the record without them.
C18_OnlySchemaFieldsCount ==
  Called("validateData") =>
    call.result = validateData(KindArg, OnlySchema(KindArg, RowArg))

\* a faulty client that carries a stale error list, the filtered-out mark
\* and a non-schema field was validated
C18_Witness ==
  /\ Called("validateData") /\ KindArg = "clients"
  /\ Field(RowArg, "_validationErrors") = Arr(<< Str("Tier: stale") >>)
  /\ Field(RowArg, "_filteredOut") = Bool(TRUE)
  /\ Field(RowArg, "Tier") = Str("x")
  /\ Len(call.result) = 3
  /\ ~Reports("Tier: stale")

\* ---------------------------------------------------------------------
\* Properties of the rules of a run.
\* ---------------------------------------------------------------------
\* no condition of the rule fails on the document
NoneFails(doc, rule) ==
  ~\E j \in 1..Len(rule.conditions) : ~evaluateCondition(doc, rule.conditions[j])

RECURSIVE Walk(_, _, _)
\* the clone after the rules rs[n..], each one acting, when none of its
\* conditions fails, on the clone the rules before it left
Walk(st, rs, n) ==
  IF n > Len(rs) THEN st
  ELSE Walk(IF NoneFails(st.doc, rs[n]) THEN ApplyActions(st, rs[n].actions, 1)
            ELSE st,
            rs, n + 1)

Unvalidated(doc) == [f \in (DOMAIN doc) \ {"_validationErrors"} |-> doc[f]]

WalkOf(k, i) == Walk(StartPass(readData[k][i]), InOrder(k), 1)

\* C19: a rule fires on a record only when every one of its conditions
\* holds, and the conditions are evaluated on the clone as the rules applied
\* earlier in the pass left it: the actions performed on a record, and the
\* fields they leave, are those of the rules, taken in order, none of whose
\* conditions fails on the clone at that point.
C19_ConditionsOnCurrentClone ==
  \A k \in DOMAIN passes : \A i \in Recs(k) :
    Completed(passes[k][i]) =>
      /\ passes[k][i].log = WalkOf(k, i).log
      /\ Unvalidated(passes[k][i].doc) = Unvalidated(WalkOf(k, i).doc)

\* rule x of storedRules has the conditions Tier eq "x" and PriorityLevel < 1
TwoConditions(x) ==
  /\ storedRules[x].hasConditions
  /\ Len(storedRules[x].conditions) = 2
  /\ storedRules[x].conditions[1].field = "Tier"
  /\ storedRules[x].actions = << Act("set_field", "Tier", Str("w")) >>

\* a rule of higher priority set Tier = "x" on two clients that had no Tier;
\* the rule with two conditions fired on the one whose PriorityLevel is
\* below 1, and not on the other, on which only its first condition holds
C19_Witness ==
  /\ "clients" \in DOMAIN passes
  /\ \E x \in 1..Len(storedRules) : TwoConditions(x)
  /\ \E i \in Recs("clients"), j \in Recs("clients") :
       /\ Completed(passes["clients"][i]) /\ Completed(passes["clients"][j])
       /\ Field(readData["clients"][i], "Tier") = Undef
       /\ Field(readData["clients"][j], "Tier") = Undef
       /\ passes["clients"][i].log =
            << Act("set_field", "Tier", Str("x")), Act("set_field", "Tier", Str("w")) >>
       /\ passes["clients"][j].log = << Act("set_field", "Tier", Str("x")) >>

\* a rule whose condition holds on the stored record did not fire, a rule
\* of higher priority having replaced the value
HeldOnStoredOnly ==
  /\ "clients" \in DOMAIN passes
  /\ \E x \in 1..Len(storedRules), i \in Recs("clients") :
       /\ Completed(passes["clients"][i])
       /\ storedRules[x].hasConditions /\ storedRules[x].conditions # <<>>
       /\ NoneFails(readData["clients"][i], storedRules[x])
       /\ ~NoneFails(passes["clients"][i].doc, storedRules[x])
       /\ ~\E n \in 1..Len(passes["clients"][i].log) :
            passes["clients"][i].log[n] \in
              {storedRules[x].actions[m] : m \in 1..Len(storedRules[x].actions)}

\* the rules stored with enabled = true for kind k or for "general"
Eligible(k) ==
  SelectSeq(rules, LAMBDA r : r.enabled /\ r.entityType \in {k, "general"})

\* the batch of kind k deletes a record that was read without the marker
DeletesUnmarked(k) ==
  \E i \in Recs(k) : \E n \in OpsFor(k, IdOf(k, i)) :
    /\ bulkOperations[k][n].op = "deleteOne"
    /\ ~Truthy(Field(readData[k][i], "_filteredOut"))

\* C20: a rule changes a record of kind K during a run only if it is stored
\* with enabled = true and its entityType is K or "general": what the run
\* does to a record is what the eligible rules alone do, and with no
\* eligible rule no action is performed, no field but the error list
\* differs from the record read, and no record is deleted but one that
\* was stored with the marker.
C20_OnlyEligibleRulesAct ==
  \A k \in DOMAIN passes :
    /\ \A i \in Recs(k) :
         /\ passes[k][i] = ProcessRecord(k, readData[k][i], Eligible(k))
         /\ Eligible(k) = <<>> =>
              /\ passes[k][i].log = <<>>
              /\ Unvalidated(passes[k][i].doc) = Unvalidated(readData[k][i])
    /\ (Eligible(k) = <<>> /\ k \in DOMAIN bulkOperations) => ~DeletesUnmarked(k)

\* the clients were processed with a disabled rule for clients and a rule
\* for workers in store, and with nothing else
C20_Witness ==
  /\ "clients" \in DOMAIN passes
  /\ "clients" \in DOMAIN bulkOperations
  /\ Len(passes["clients"]) = 2
  /\ Len(rules) = 2
  /\ \E x \in 1..2 : ~rules[x].enabled /\ rules[x].entityType = "clients"
  /\ \E x \in 1..2 : rules[x].enabled /\ rules[x].entityType = "workers"
  /\ \A i \in 1..2 : passes["clients"][i].log = <<>>

\* ---------------------------------------------------------------------
\* Properties of evaluateCondition called on its own.
\* ---------------------------------------------------------------------
RecordArg == call.args[1]
ConditionArg == call.args[2]
OnPath == Called("evaluateCondition") /\ DOMAIN RecordArg = DOMAIN Nested
OnValue == Called("evaluateCondition") /\ DOMAIN RecordArg = {"F"}

\* the entry of FieldPool for the path of the condition
PathEntry == CHOOSE f \in FieldPool : f.path = ConditionArg.field

Unguarded == {"exists", "is_string", "is_not_json"}

\* C21: for every operator other than exists, is_string and is_not_json,
\* unknown operators included, evaluateCondition returns false when the
\* value at condition.field is undefined or null, which includes a dotted
\* path with a missing or non-object intermediate segment.
C21_NullishIsFalse ==
  (OnPath /\ ConditionArg.operator \notin Unguarded /\ PathEntry.nullish)
    => call.result = FALSE

\* a list that holds null was tested with nin on a path through a string
C21_Witness ==
  /\ OnPath
  /\ ConditionArg = Cond("A.b", "nin", Arr(<< Null, Num(3) >>))
  /\ call.result = FALSE

\* C22: for exists, evaluateCondition returns true exactly when (the
\* value is neither undefined nor null) equals condition.value: with true
\* for present non-null fields, with false for missing or null fields, and
\* with a non-boolean condition.value never.
C22_ExistsComparesWithValue ==
  (OnPath /\ ConditionArg.operator = "exists") =>
    (call.result <=>
       \/ ConditionArg.value = Bool(TRUE) /\ ~PathEntry.nullish
       \/ ConditionArg.value = Bool(FALSE) /\ PathEntry.nullish)

\* exists with the value false held on a field that is null
C22_Witness ==
  /\ OnPath
  /\ ConditionArg = Cond("O.n", "exists", Bool(FALSE))
  /\ call.result = TRUE

\* numeric-looking strings and the numbers they denote
NumeralPool ==
  { [s |-> "3", n |-> 3], [s |-> " 4 ", n |-> 4], [s |-> "-2", n |-> 0 - 2],
    [s |-> "03", n |-> 3] }

\* spellings of the booleans
BoolWords ==
  { [s |-> "true", b |-> TRUE], [s |-> "TRUE", b |-> TRUE],
    [s |-> "False", b |-> FALSE], [s |-> "fAlSe", b |-> FALSE] }

\* the string x denotes the number or the boolean y
Denotes(x, y) ==
  /\ x.t = "str"
  /\ \/ y.t = "num" /\ \E e \in NumeralPool : x.v = e.s /\ y.v = e.n
     \/ y.t = "bool" /\ \E e \in BoolWords : x.v = e.s /\ y.v = e.b

\* equal after the coercion of a string that faces a number or a boolean
SameAfterCoercion(x, y) ==
  IF x.t = y.t THEN x.v = y.v ELSE Denotes(x, y) \/ Denotes(y, x)

\* C23: coercion in evaluateCondition is symmetric for eq and ne: a
\* numeric-looking string and the number it denotes are equal whichever of
\* the two the record holds, likewise "true" / "false" in any letter case
\* and the boolean; two values of the same type are compared as they are.
C23_CoercionIsSymmetric ==
  (OnValue /\ ConditionArg.operator \in {"eq", "ne"}) =>
    (call.result <=>
       ((ConditionArg.operator = "eq")
          <=> SameAfterCoercion(RecordArg["F"], ConditionArg.value)))

\* the record holds the number 4 and the condition the string " 4 "
C23_Witness ==
  /\ OnValue
  /\ RecordArg["F"] = Num(4)
  /\ ConditionArg = Cond("F", "eq", Str(" 4 "))
  /\ call.result = TRUE

\* ---------------------------------------------------------------------
\* Properties of the batch of a run.
\* ---------------------------------------------------------------------
\* undefined and null are one value to the split of lines 299-309
SameValue(x, y) == (IsNullish(x) /\ IsNullish(y)) \/ x = y

\* the clone of record i ends with the fields the record was read with
NoFieldChanged(k, i) ==
  \A f \in (DOMAIN passes[k][i].doc) \cup (DOMAIN readData[k][i]) :
    SameValue(Field(passes[k][i].doc, f), Field(readData[k][i], f))

AtMostOneOperation ==
  \A k \in DOMAIN bulkOperations : \A i \in Recs(k) :
    Cardinality(OpsFor(k, IdOf(k, i))) <= 1

\* C24: each record of the snapshot ends as a no-op, an update or a
\* delete: the batch never holds two operations for one _id, and a record
\* is left out of the batch exactly when no field of it changed.
C24_OneOutcomePerRecord ==
  /\ AtMostOneOperation
  /\ \A k \in DOMAIN bulkOperations : \A i \in Recs(k) :
       (OpsFor(k, IdOf(k, i)) = {}) <=> NoFieldChanged(k, i)

\* C24, with "changed" read as the changed-field set of the pass: the batch
\* never holds two operations for one _id, and a record is left out of the
\* batch exactly when its changed-field set is empty.
C24_OneOutcomePerChangedSet ==
  /\ AtMostOneOperation
  /\ \A k \in DOMAIN bulkOperations : \A i \in Recs(k) :
       (OpsFor(k, IdOf(k, i)) = {}) <=> (passes[k][i].changed = {})

\* of two clients read, one ended in a delete and the other in an update
C24_Witness ==
  /\ "clients" \in DOMAIN bulkOperations
  /\ Len(readData["clients"]) = 2
  /\ \E i \in 1..2, j \in 1..2 :
       /\ \A n \in OpsFor("clients", IdOf("clients", i)) :
            bulkOperations["clients"][n].op = "deleteOne"
       /\ \A n \in OpsFor("clients", IdOf("clients", j)) :
            bulkOperations["clients"][n].op = "updateOne"
       /\ OpsFor("clients", IdOf("clients", i)) # {}
       /\ OpsFor("clients", IdOf("clients", j)) # {}
       /\ NoFieldChanged("clients", j)

\* ---------------------------------------------------------------------
\* Properties of single actions.
\* ---------------------------------------------------------------------
\* the pass of record i of kind k after the first n actions it executed
AfterAction(k, i, n) ==
  ApplyActions(StartPass(readData[k][i]), SubSeq(passes[k][i].log, 1, n), 1)

\* the two pass states differ in nothing but the fields F of the clone and
\* their membership in the changed-field set
DiffersOnlyIn(before, after, F) ==
  /\ \A f \in ((DOMAIN before.doc) \cup (DOMAIN after.doc)) \ F :
       /\ f \in DOMAIN before.doc <=> f \in DOMAIN after.doc
       /\ Field(before.doc, f) = Field(after.doc, f)
  /\ after.changed = before.changed \cup F
  /\ after.orig = before.orig
  /\ after.thrown = before.thrown

\* C25: a filter_out action changes only the _filteredOut marker of the
\* clone: every other field, _validationErrors and nested values included,
\* is the same before and after the action, and only _filteredOut is added
\* to the changed-field set.
C25_FilterOutTouchesMarkerOnly ==
  \A k \in DOMAIN passes : \A i \in Recs(k) :
    \A n \in 1..Len(passes[k][i].log) :
      passes[k][i].log[n].type = "filter_out" =>
        /\ DiffersOnlyIn(AfterAction(k, i, n - 1), AfterAction(k, i, n),
                         {"_filteredOut"})
        /\ Field(AfterAction(k, i, n).doc, "_filteredOut") = Bool(TRUE)

\* filter_out acted on a clone that held an error list and a nested object
C25_Witness ==
  \E k \in DOMAIN passes : \E i \in Recs(k) :
    \E n \in 1..Len(passes[k][i].log) :
      /\ passes[k][i].log[n].type = "filter_out"
      /\ Field(AfterAction(k, i, n - 1).doc, "_validationErrors").t = "arr"
      /\ Field(AfterAction(k, i, n - 1).doc, "AttributesJSON").t = "obj"
      /\ ~Truthy(Field(AfterAction(k, i, n - 1).doc, "_filteredOut"))

ActingTypes ==
  {"set_field", "mark_error", "filter_out", "wrap_string_in_json_message"}

Inert(action) == action.type \notin ActingTypes

\* every action of the rule is inert
InertRule(r) ==
  r.hasConditions /\ r.hasActions
    /\ \A j \in 1..Len(r.actions) : Inert(r.actions[j])

ActingRules == SelectSeq(storedRules, LAMBDA r : ~InertRule(r))

\* C26: a transform_value action, and any action whose type is none of
\* set_field, mark_error, filter_out, wrap_string_in_json_message, leaves
\* the clone and the changed-field set as they are; a rule made only of
\* such actions yields the operations that the run yields without it.
C26_InertActions ==
  \A k \in DOMAIN passes : \A i \in Recs(k) :
    /\ \A n \in 1..Len(passes[k][i].log) :
         Inert(passes[k][i].log[n]) =>
           /\ AfterAction(k, i, n).doc = AfterAction(k, i, n - 1).doc
           /\ DiffersOnlyIn(AfterAction(k, i, n - 1), AfterAction(k, i, n), {})
    /\ RecordOps(passes[k][i])
         = RecordOps(ProcessRecord(k, readData[k][i], ActingRules))

\* a transform_value and an action of an unknown type ran on a record on
\* which a rule of higher priority had set a field
C26_Witness ==
  \E k \in DOMAIN passes : \E i \in Recs(k) :
    /\ Completed(passes[k][i])
    /\ Len(passes[k][i].log) = 3
    /\ passes[k][i].log[1].type = "set_field"
    /\ passes[k][i].log[2].type = "transform_value"
    /\ passes[k][i].log[3].type = "rename_field"
    /\ RecordOps(passes[k][i]) # <<>>

\* operation n of the batch of kind k is the one of record n: a delete, or
\* an update that sets or unsets _validationErrors
OperationOf(k, n) ==
  /\ bulkOperations[k][n].id = IdOf(k, n)
  /\ \/ bulkOperations[k][n].op = "deleteOne"
     \/ /\ bulkOperations[k][n].op = "updateOne"
        /\ \/ "_validationErrors" \in DOMAIN bulkOperations[k][n].set
           \/ "_validationErrors" \in bulkOperations[k][n].unset

\* C27: _validationErrors being in the changed-field set of every record,
\* each record of the snapshot contributes exactly one operation to the
\* batch of its kind, a delete or an update that sets or unsets
\* _validationErrors: the batch is as long as the records read are many,
\* and empty only when the collection is empty.
C27_OneOperationPerRecord ==
  \A k \in DOMAIN bulkOperations :
    /\ Len(bulkOperations[k]) = Len(readData[k])
    /\ \A n \in 1..Len(bulkOperations[k]) : OperationOf(k, n)
    /\ (bulkOperations[k] = <<>>) <=> (readData[k] = <<>>)

\* with no rule in store, the batch of the clients sets the errors of both
\* and the batch of the tasks unsets the errors of the only task
C27_Witness ==
  /\ storedRules = <<>>
  /\ {"clients", "tasks"} \subseteq DOMAIN bulkOperations
  /\ Len(bulkOperations["clients"]) = 2
  /\ \A n \in 1..2 :
       "_validationErrors" \in DOMAIN bulkOperations["clients"][n].set
  /\ Len(bulkOperations["tasks"]) = 1
  /\ bulkOperations["tasks"][1].unset = {"_validationErrors"}

\* ---------------------------------------------------------------------
\* Properties of deletion.
\* ---------------------------------------------------------------------
Present(k, id) == \E n \in 1..Len(data[k]) : data[k][n]["_id"] = id

DeleteInBatch(k, i) ==
  \E n \in OpsFor(k, IdOf(k, i)) : bulkOperations[k][n].op = "deleteOne"

\* C28: a record is deleted by a run if and only if _filteredOut is truthy
\* on its final clone: the batch holds a delete for exactly these records,
\* and once the batch is written exactly these records are gone.  A stored
\* truthy marker and a truthy value written by set_field delete; a falsy
\* value written by set_field after a filter_out does not.
C28_DeletedIffMarked ==
  /\ \A k \in DOMAIN bulkOperations : \A i \in Recs(k) :
       DeleteInBatch(k, i) <=> Marked(passes[k][i])
  /\ \A k \in (DOMAIN results) \cap (DOMAIN bulkOperations) : \A i \in Recs(k) :
       ~Present(k, IdOf(k, i)) <=> Marked(passes[k][i])

\* a task stored with a truthy _filteredOut is gone after a run in which no
\* action was performed on it
C28_Witness ==
  /\ "tasks" \in (DOMAIN results) \cap (DOMAIN bulkOperations)
  /\ \E i \in Recs("tasks") :
       /\ Truthy(Field(readData["tasks"][i], "_filteredOut"))
       /\ passes["tasks"][i].log = <<>>
       /\ DeleteInBatch("tasks", i)
       /\ ~Present("tasks", IdOf("tasks", i))

\* a record is gone on which set_field wrote a truthy _filteredOut
DeletedBySetField ==
  \E k \in (DOMAIN results) \cap (DOMAIN bulkOperations) : \E i \in Recs(k) :
    /\ ~Truthy(Field(readData[k][i], "_filteredOut"))
    /\ passes[k][i].log = << Act("set_field", "_filteredOut", Num(1)) >>
    /\ ~Present(k, IdOf(k, i))

\* a record is kept on which set_field wrote a falsy _filteredOut after a
\* filter_out
KeptAfterFilterOut ==
  \E k \in (DOMAIN results) \cap (DOMAIN bulkOperations) : \E i \in Recs(k) :
    /\ Fired(passes[k][i], "filter_out")
    /\ passes[k][i].log[Len(passes[k][i].log)]
         = Act("set_field", "_filteredOut", Bool(FALSE))
    /\ Present(k, IdOf(k, i))

\* ---------------------------------------------------------------------
\* Properties of runs without rules and of rules without conditions.
\* ---------------------------------------------------------------------
NoneApplicable(k) == Applicable(k) = {}

StoredOf(k, id) == data[k][CHOOSE n \in 1..Len(data[k]) : data[k][n]["_id"] = id]

\* what a run started now, with the same rules, writes to collection k
SecondRun(k) ==
  bulkWrite(data[k], OpsOf(Passes(k, data[k], storedRules, 1), 1))

\* the write r leaves the collection coll as it is
StaysPut(r, coll) ==
  r.ok /\ r.coll = coll /\ r.modified = 0 /\ r.deleted = 0

\* C29: with no enabled rule applicable to a kind, a run changes no stored
\* field of a record of that kind but _validationErrors and deletes only
\* records that carry a truthy _filteredOut; a second run right after the
\* first leaves the stored data as the first left it.
C29_RunWithoutRules ==
  \A k \in (DOMAIN results) \cap (DOMAIN bulkOperations) :
    NoneApplicable(k) =>
      /\ \A i \in Recs(k) :
           IF Present(k, IdOf(k, i))
           THEN Unvalidated(StoredOf(k, IdOf(k, i))) = Unvalidated(readData[k][i])
           ELSE Truthy(Field(readData[k][i], "_filteredOut"))
      /\ StaysPut(SecondRun(k), data[k])

\* with a rule for clients alone in store, a run has written the tasks:
\* the marked task is gone
C29_Witness ==
  /\ "tasks" \in (DOMAIN results) \cap (DOMAIN bulkOperations)
  /\ storedRules # <<>>
  /\ NoneApplicable("tasks")
  /\ Len(readData["tasks"]) = 1
  /\ ~Present("tasks", IdOf("tasks", 1))
  /\ results["tasks"].deletedCount = 1

\* a run without applicable rules has rewritten the errors of a record
ErrorsRewritten ==
  \E k \in (DOMAIN results) \cap (DOMAIN bulkOperations) : \E i \in Recs(k) :
    /\ NoneApplicable(k)
    /\ Present(k, IdOf(k, i))
    /\ Field(readData[k][i], "_validationErrors").t = "arr"

\* the actions of rule r ran one after the other in the pass st
RanIn(st, r) ==
  \E n \in 0..(Len(st.log) - Len(r.actions)) :
    SubSeq(st.log, n + 1, n + Len(r.actions)) = r.actions

\* C30: an enabled rule whose conditions list is empty matches every record
\* of its kind, and of every kind when its entityType is "general": in each
\* run its actions are applied to all of them.
C30_NoConditionsMatchesAll ==
  \A k \in DOMAIN passes :
    ~Thrown(passes[k]) =>
      /\ Len(passes[k]) = Len(readData[k])
      /\ \A i \in Recs(k) : \A x \in Applicable(k) :
           Unconditional(storedRules[x]) => RanIn(passes[k][i], storedRules[x])

\* a general rule without conditions ran on every record of the three
\* kinds
C30_Witness ==
  /\ DOMAIN passes = Kinds
  /\ \E x \in 1..Len(storedRules) :
       /\ storedRules[x].entityType = "general"
       /\ Unconditional(storedRules[x])
       /\ storedRules[x].actions # <<>>
       /\ \A k \in Kinds :
            /\ ~Thrown(passes[k])
            /\ Len(passes[k]) > 0
            /\ \A i \in Recs(k) : RanIn(passes[k][i], storedRules[x])

====
